---- MODULE Spec2Model ----
(***************************************************************************)
(* A model of the LLM Memory MCP server's database layer (src/db.py) and   *)
(* of the tools that expose it (src/server.py): the knowledge store with   *)
(* its duplicate gate and extraction loop, and the conversation store with *)
(* its cross-entity full-text search.                                      *)
(*                                                                         *)
(* Texts are sequences of words.  PostgreSQL's 'english' text search       *)
(* configuration is modelled by what it does to a word: lower-casing,      *)
(* stop-word removal and stemming.                                         *)
(***************************************************************************)
EXTENDS Naturals, Sequences, FiniteSets

\* ------------------------------------------------------------------------
\* Bounds of the model
\* ------------------------------------------------------------------------

\* Rows ever inserted into the knowledge table in one behaviour.
MaxItems == 3

\* Statements in the text of one auto_extract_preferences call.
MaxStatements == 2

\* Conversations ever saved in one behaviour.
MaxConvs == 2

\* ------------------------------------------------------------------------
\* Words and texts
\* ------------------------------------------------------------------------

P1 == "p1"
P2 == "p2"

\* The requests the server runs at a time (asyncio tasks).
Procs == {P1, P2}

\* The words the model's texts are written with.
Vocabulary == {"the", "Prefers", "prefer", "postgresql"}

\* Number of characters of a word.
WordLen(w) ==
  CASE w = "the" -> 3
    [] w = "Prefers" -> 7
    [] w = "prefer" -> 6
    [] w = "postgresql" -> 10
    [] w = "lorem" -> 189
    [] w = "pos" -> 3
    [] OTHER -> 1

RECURSIVE SumWordLen(_)
SumWordLen(s) == IF s = <<>> THEN 0 ELSE WordLen(Head(s)) + SumWordLen(Tail(s))

\* len(s) of a text whose words are joined by single blanks.
CharLen(s) == IF s = <<>> THEN 0 ELSE SumWordLen(s) + (Len(s) - 1)

\* str.lower() / the text search parser's case folding.
Lower(w) ==
  CASE w = "Prefers" -> "prefers"
    [] w = "I" -> "i"
    [] w = "Always" -> "always"
    [] OTHER -> w

\* Stop words of the 'english' configuration (those that occur in Vocabulary).
StopWords == {"the", "a", "is", "it", "i", "and", "of"}

\* The english Snowball stemmer on the words of the model.
Stem(w) == IF w = "prefers" THEN "prefer" ELSE w

\* The lexemes of a text, in order, one per occurrence of a non-stop word.
RECURSIVE Lexemes(_)
Lexemes(text) ==
  IF text = <<>> THEN <<>>
  ELSE LET w == Lower(Head(text))
       IN IF w \in StopWords THEN Lexemes(Tail(text))
          ELSE <<Stem(w)>> \o Lexemes(Tail(text))

Range(s) == {s[i] : i \in 1..Len(s)}

\* to_tsvector('english', text): the set of the text's lexemes.
ToTsVector(text) == Range(Lexemes(text))

\* plainto_tsquery('english', text): the conjunction of the text's lexemes.
PlainToTsQuery(text) == Range(Lexemes(text))

\* Mutation of TsMatch: a query matches as soon as one of its terms occurs.
TsMatchAnyTerm(doc, query) == PlainToTsQuery(query) \cap ToTsVector(doc) /= {}

\* to_tsvector(doc) @@ plainto_tsquery(query): every term of the query occurs
\* in the document; a query without terms matches nothing.
TsMatch(doc, query) ==
  /\ PlainToTsQuery(query) /= {}
  /\ PlainToTsQuery(query) \subseteq ToTsVector(doc)

\* ------------------------------------------------------------------------
\* Statement classifier
\* ------------------------------------------------------------------------

PreferenceKeywords ==
  { <<"prefer">>, <<"like">>, <<"love">>, <<"enjoy">>, <<"favor">>, <<"want">>,
    <<"choose">>, <<"rather">>, <<"my", "favorite">>, <<"i", "use">>,
    <<"i", "always">> }

InstructionKeywords ==
  { <<"always">>, <<"never">>, <<"must">>, <<"should">>, <<"don't">>,
    <<"do", "not">>, <<"make", "sure">>, <<"ensure">>, <<"avoid">>,
    <<"remember", "to">> }

DecisionKeywords ==
  { <<"decided">>, <<"decision">>, <<"chose">>, <<"chosen">>, <<"agreed">>,
    <<"we", "will">>, <<"going", "to">>, <<"settled", "on">>,
    <<"switched", "to">>, <<"migrated", "to">> }

\* pattern.search(text) for a pattern \b(k1|k2|...)\b with re.IGNORECASE:
\* one of the keywords occurs as whole words.
KeywordSearch(keywords, text) ==
  \E k \in keywords :
    \E i \in 1..Len(text) :
      /\ i + Len(k) - 1 <= Len(text)
      /\ \A j \in 1..Len(k) : Lower(text[i + j - 1]) = k[j]

\* Mutation of _classify_statement: the instruction rule is tried first.
_classify_statement_instruction_first(text) ==
  IF KeywordSearch(InstructionKeywords, text) THEN "instruction"
  ELSE IF KeywordSearch(PreferenceKeywords, text) THEN "preference"
  ELSE IF KeywordSearch(DecisionKeywords, text) THEN "decision"
  ELSE "fact"

_classify_statement(text) ==
  IF KeywordSearch(PreferenceKeywords, text) THEN "preference"
  ELSE IF KeywordSearch(InstructionKeywords, text) THEN "instruction"
  ELSE IF KeywordSearch(DecisionKeywords, text) THEN "decision"
  ELSE "fact"

\* ------------------------------------------------------------------------
\* Inputs of the knowledge operations
\* ------------------------------------------------------------------------

\* Categories passed to the knowledge operations (category is free text).
Categories == {"fact", "preference"}

\* Contents passed to the knowledge operations.
Contents ==
  { <<"the">>, <<"postgresql">>, <<"prefer", "postgresql">>,
    <<"Prefers", "postgresql">> }

\* What _extract_statements keeps: statements of at least 10 characters.
MinStatementChars == 10

Statements == {x \in Contents : CharLen(x) >= MinStatementChars}

\* The statement lists auto_extract_preferences works on.
StatementLists ==
  UNION { [1..n -> Statements] : n \in 0..MaxStatements }

\* ------------------------------------------------------------------------
\* State
\* ------------------------------------------------------------------------

VARIABLES
  knowledge,   \* the rows of table knowledge
  nextKid,     \* the identity the next knowledge row gets
  pc,          \* per request: where it stands in its handler
  call,        \* per request: the local variables of its handler
  hist,        \* history: the save_knowledge_if_new calls of a lone client
  conversations, \* the rows of table conversations
  messages,    \* the rows of table messages
  nextCid,     \* the identity the next conversation row gets
  nextMid,     \* the identity the next message row gets
  now,         \* the clock behind NOW()
  spc,         \* where the search request stands in its handler
  search,      \* the local variables of the search request
  arg,         \* the argument of a call of one of the text functions
  ret,         \* what that call returned
  tpc,         \* per request: where it stands in a handler of the row operations
  tx,          \* per request: the local variables of that handler
  convTags,    \* column tags of table conversations, by row identity
  knowTags,    \* column tags of table knowledge, by row identity
  passed,      \* history: the messages passed to each save_conversation call
  projects,    \* the rows of table projects
  pool         \* the module variable _pool and the pools that are open

kvars == <<knowledge, nextKid, pc, call>>

cvars == <<conversations, messages, nextCid, nextMid, now>>

svars == <<spc, search>>

fvars == <<arg, ret>>

rvars == <<tpc, tx>>

gvars == <<convTags, knowTags>>

pvars == <<projects, pool>>

\* The variables that the specifications of the knowledge store and of the
\* search leave alone.
xvars == <<fvars, rvars, gvars, passed, pvars>>

\* The variables that a call of a text function leaves alone.
dbvars == <<kvars, hist, cvars, svars, rvars, gvars, passed, pvars>>

vars == <<knowledge, nextKid, pc, call, hist, conversations, messages, nextCid,
          nextMid, now, spc, search, arg, ret, tpc, tx, convTags, knowTags,
          passed, projects, pool>>

NoResult == [status |-> "none", id |-> 0]

IdleCall ==
  [op |-> "none", items |-> <<>>, i |-> 0, saved |-> <<>>, skipped |-> <<>>,
   result |-> NoResult]

IdleSearch == [query |-> <<>>, platform |-> "", limit |-> 0, rows |-> <<>>,
               results |-> <<>>]

\* The local variables of a request that runs no row operation.
IdleTx ==
  [op |-> "none", cid |-> 0, platform |-> "", title |-> <<>>, summary |-> <<>>,
   tags |-> <<>>, msgs |-> <<>>, pending |-> <<>>, start |-> 0, result |-> "none",
   read |-> <<>>, add |-> <<>>, remove |-> <<>>, kid |-> 0, category |-> "",
   content |-> <<>>, given |-> <<>>,
   fresh |-> <<>>]

\* Before the first get_pool: _pool is None (0) and no pool was created.
NoPool == [ref |-> 0, open |-> {}, created |-> 0]

\* No call of a text function has been made / has returned.
NoArg == <<>>

NoRet == <<>>

\* The stores after init_db on an empty database, and no request running.
InitStore ==
  /\ knowledge = {}
  /\ nextKid = 1
  /\ pc = [p \in Procs |-> "idle"]
  /\ call = [p \in Procs |-> IdleCall]
  /\ hist = <<>>
  /\ conversations = {}
  /\ messages = {}
  /\ nextCid = 1
  /\ nextMid = 1
  /\ now = 0
  /\ spc = "idle"
  /\ search = IdleSearch
  /\ tpc = [p \in Procs |-> "idle"]
  /\ tx = [p \in Procs |-> IdleTx]
  /\ convTags = <<>>
  /\ knowTags = <<>>
  /\ passed = <<>>
  /\ projects = {}
  /\ pool = NoPool

Init ==
  /\ InitStore
  /\ arg = NoArg
  /\ ret = NoRet

\* ------------------------------------------------------------------------
\* Duplicate gate: save_knowledge_if_new
\* ------------------------------------------------------------------------

\* Mutation of ExistingSimilar: the category is not compared.
ExistingSimilarAnyCategory(category, content) ==
  {k \in knowledge : TsMatch(k.content, content)}

\* Mutation of ExistingSimilar: any shared term makes a row similar.
ExistingSimilarAnyTerm(category, content) ==
  {k \in knowledge : TsMatchAnyTerm(k.content, content) /\ k.category = category}

\* The rows the duplicate check selects from.
ExistingSimilar(category, content) ==
  {k \in knowledge : TsMatch(k.content, content) /\ k.category = category}

\* The item a request is working on.
Current(p) == call[p].items[call[p].i]

\* Mutation of AfterResult: a skipped statement is not recorded.
AfterResultForgetsSkipped(p, res) ==
  LET c == call[p]
      more == c.op = "extract" /\ c.i < Len(c.items)
  IN /\ call' = [call EXCEPT ![p] =
                   [c EXCEPT !.result = res,
                             !.saved = IF c.op = "extract" /\ res.status = "saved"
                                       THEN Append(c.saved, res.id) ELSE c.saved,
                             !.i = IF more THEN c.i + 1 ELSE c.i]]
     /\ pc' = [pc EXCEPT ![p] = IF more THEN "select" ELSE "return"]

\* Where a request goes once save_knowledge_if_new has returned `res`:
\* the extraction loop records the result and takes the next statement.
AfterResult(p, res) ==
  LET c == call[p]
      more == c.op = "extract" /\ c.i < Len(c.items)
  IN /\ call' = [call EXCEPT ![p] =
                   [c EXCEPT !.result = res,
                             !.saved = IF c.op = "extract" /\ res.status = "saved"
                                       THEN Append(c.saved, res.id) ELSE c.saved,
                             !.skipped = IF c.op = "extract" /\ res.status = "skipped"
                                         THEN Append(c.skipped, Current(p).content)
                                         ELSE c.skipped,
                             !.i = IF more THEN c.i + 1 ELSE c.i]]
     /\ pc' = [pc EXCEPT ![p] = IF more THEN "select" ELSE "return"]

\* A direct call of save_knowledge_if_new(category, content).
SaveKnowledgeIfNewCall(p, category, content) ==
  /\ pc[p] = "idle"
  /\ call' = [call EXCEPT ![p] =
                [IdleCall EXCEPT !.op = "save_if_new",
                                 !.items = <<[category |-> category, content |-> content]>>,
                                 !.i = 1]]
  /\ pc' = [pc EXCEPT ![p] = "select"]
  /\ UNCHANGED <<knowledge, nextKid>>

\* Mutation of ReturnSkipped: the candidate is inserted although it is
\* reported as a duplicate.
ReturnSkippedAndInsert(p, e) ==
  /\ AfterResult(p, [status |-> "skipped", id |-> e.id])
  /\ knowledge' = knowledge \cup
       {[id |-> nextKid, category |-> Current(p).category,
         content |-> Current(p).content]}
  /\ nextKid' = nextKid + 1

\* `if existing: return {"status": "skipped", ..., "existing_id": ...}`
ReturnSkipped(p, e) ==
  /\ AfterResult(p, [status |-> "skipped", id |-> e.id])
  /\ UNCHANGED <<knowledge, nextKid>>

\* The SELECT ... LIMIT 1 of the duplicate check and the branch on its result.
\* Without ORDER BY, LIMIT 1 returns any one of the selected rows.
SelectExisting(p) ==
  /\ pc[p] = "select"
  /\ LET found == ExistingSimilar(Current(p).category, Current(p).content)
     IN IF found /= {}
        THEN \E e \in found : ReturnSkipped(p, e)
        ELSE /\ pc' = [pc EXCEPT ![p] = "insert"]
             /\ UNCHANGED <<knowledge, nextKid, call>>

\* The INSERT ... RETURNING id of save_knowledge_if_new.
InsertKnowledge(p) ==
  /\ pc[p] = "insert"
  /\ nextKid <= MaxItems
  /\ knowledge' = knowledge \cup
       {[id |-> nextKid, category |-> Current(p).category,
         content |-> Current(p).content]}
  /\ nextKid' = nextKid + 1
  /\ AfterResult(p, [status |-> "saved", id |-> nextKid])

\* The handler returns its result to the caller.
Return(p) ==
  /\ pc[p] = "return"
  /\ pc' = [pc EXCEPT ![p] = "idle"]
  /\ call' = [call EXCEPT ![p] = IdleCall]
  /\ UNCHANGED <<knowledge, nextKid>>

\* ------------------------------------------------------------------------
\* Extraction: auto_extract_preferences / extract_and_save_preferences
\* ------------------------------------------------------------------------

\* The call starts with the statements of its text, each with its category.
ExtractAndSavePreferences(p, statements) ==
  /\ pc[p] = "idle"
  /\ call' = [call EXCEPT ![p] =
                [IdleCall EXCEPT
                   !.op = "extract",
                   !.items = [n \in 1..Len(statements) |->
                                [category |-> _classify_statement(statements[n]),
                                 content |-> statements[n]]],
                   !.i = IF statements = <<>> THEN 0 ELSE 1]]
  /\ pc' = [pc EXCEPT ![p] = IF statements = <<>> THEN "return" ELSE "select"]
  /\ UNCHANGED <<knowledge, nextKid>>

\* The report of a finished extraction call.
Report(p) ==
  [total_extracted |-> Len(call[p].items),
   newly_saved |-> Len(call[p].saved),
   duplicates_skipped |-> Len(call[p].skipped)]

\* ------------------------------------------------------------------------
\* Plain insert and delete of knowledge rows
\* ------------------------------------------------------------------------

\* save_knowledge: an insert without duplicate check.
SaveKnowledge(category, content) ==
  /\ nextKid <= MaxItems
  /\ knowledge' = knowledge \cup
       {[id |-> nextKid, category |-> category, content |-> content]}
  /\ nextKid' = nextKid + 1
  /\ UNCHANGED <<pc, call>>

\* delete_knowledge_entry of a stored row.
DeleteKnowledgeEntry(k) ==
  /\ k \in knowledge
  /\ knowledge' = knowledge \ {k}
  /\ UNCHANGED <<nextKid, pc, call>>

\* ------------------------------------------------------------------------
\* Conversations: save_conversation
\* ------------------------------------------------------------------------

\* Platform names as the tools receive them.
PlatformArgs == {"cursor", "Cursor", "vscode"}

\* platform.lower().strip() in the tools.
NormalizePlatform(platform) == IF platform = "Cursor" THEN "cursor" ELSE platform

\* Titles and summaries passed to save_conversation ("" is stored as NULL).
Titles == {<<>>, <<"postgresql">>}

Summaries == {<<>>, <<"postgresql">>}

\* Message lists passed to save_conversation: the contents, in the caller's order.
MessageLists ==
  { <<>>,
    << <<"prefer">>, <<"postgresql">> >>,
    << <<"postgresql">>, <<"postgresql", "postgresql">> >> }

\* save_conversation: one transaction inserts the conversation and its
\* messages.  NOW() is the start time of the transaction, so the row of the
\* conversation and the rows of all its messages get the same created_at;
\* a later transaction starts at a later time.
\* Identities are numbered in the order of the inserts.
SaveConversation(platform, title, summary, msgs) ==
  /\ nextCid <= MaxConvs
  /\ now' = now + 1
  /\ conversations' = conversations \cup
       {[id |-> nextCid, platform |-> NormalizePlatform(platform), title |-> title,
         summary |-> summary, created_at |-> now']}
  /\ messages' = messages \cup
       {[id |-> nextMid + n - 1, conversation_id |-> nextCid, content |-> msgs[n],
         created_at |-> now'] : n \in 1..Len(msgs)}
  /\ nextCid' = nextCid + 1
  /\ nextMid' = nextMid + Len(msgs)

\* ------------------------------------------------------------------------
\* Search: search_memory / search_conversations
\* ------------------------------------------------------------------------

Min(a, b) == IF a <= b THEN a ELSE b

Max(S) == CHOOSE x \in S : \A y \in S : y <= x

RECURSIVE Sum(_)
Sum(S) == IF S = {} THEN 0 ELSE LET x == CHOOSE y \in S : TRUE IN x + Sum(S \ {x})

\* All orders of the elements of a finite set.
RECURSIVE Perms(_)
Perms(S) ==
  IF S = {} THEN {<<>>}
  ELSE UNION {{<<x>> \o s : s \in Perms(S \ {x})} : x \in S}

\* ts_rank(to_tsvector(doc), plainto_tsquery(query)): a value that is not
\* negative and grows with the number of occurrences of the query's terms.
TsRank(doc, query) ==
  Cardinality({n \in 1..Len(Lexemes(doc)) : Lexemes(doc)[n] \in PlainToTsQuery(query)})

\* coalesce(title,'') || ' ' || coalesce(summary,'')
ConvDoc(c) == c.title \o c.summary

\* The common table matched_convs: one row per conversation that matches by
\* title/summary, and one row per conversation and score of a matching
\* message (UNION and DISTINCT drop equal rows).
MatchedConvs(query) ==
  {[id |-> c.id, platform |-> c.platform, created_at |-> c.created_at,
    conv_rank |-> TsRank(ConvDoc(c), query)] :
     c \in {d \in conversations : TsMatch(ConvDoc(d), query)}}
  \cup
  {[id |-> c.id, platform |-> c.platform, created_at |-> c.created_at,
    conv_rank |-> TsRank(m.content, query)] :
     <<m, c>> \in {mc \in messages \X conversations :
                     /\ mc[2].id = mc[1].conversation_id
                     /\ TsMatch(mc[1].content, query)}}

\* `if platform: sql += " WHERE platform = $2"`
PlatformFilter(rows, platform) ==
  IF platform /= "" THEN {r \in rows : r.platform = platform} ELSE rows

\* Mutation of MergeRank: the scores are added up.
MergeRankSum(scores) == Sum(scores)

\* MAX(conv_rank) as rank
MergeRank(scores) == Max(scores)

\* Mutation of GroupById: no grouping, one result row per row of matched_convs.
GroupByNothing(rows) ==
  {[id |-> r.id, platform |-> r.platform, created_at |-> r.created_at,
    rank |-> r.conv_rank] : r \in rows}

\* GROUP BY id, platform, ..., created_at with MAX(conv_rank) as rank
GroupById(rows) ==
  {[id |-> r.id, platform |-> r.platform, created_at |-> r.created_at,
    rank |-> MergeRank({r2.conv_rank : r2 \in {r3 \in rows : r3.id = r.id}})] :
     r \in rows}

\* ORDER BY rank DESC, created_at DESC: every order the sort may produce
\* (rows equal in both keys come in any order).
OrderByRank(rows) ==
  {s \in Perms(rows) :
     \A a, b \in 1..Len(s) :
       a < b => \/ s[a].rank > s[b].rank
                \/ s[a].rank = s[b].rank /\ s[a].created_at >= s[b].created_at}

\* LIMIT n
Limit(s, n) == SubSeq(s, 1, Min(n, Len(s)))

\* Mutation of SearchRows: the platform filter is applied to the rows that
\* are left after ORDER BY and LIMIT.
SearchRowsFilterLast(query, platform, limit) ==
  {SelectSeq(Limit(s, limit), LAMBDA r : platform = "" \/ r.platform = platform) :
     s \in OrderByRank(GroupById(MatchedConvs(query)))}

\* The results the ranking statement of search_conversations may return.
SearchRows(query, platform, limit) ==
  {Limit(s, limit) :
     s \in OrderByRank(GroupById(PlatformFilter(MatchedConvs(query), platform)))}

\* search_conversations(query, platform, limit) up to its ranking statement.
SearchConversations(query, platform, limit) ==
  /\ spc = "idle"
  /\ \E rows \in SearchRows(query, platform, limit) :
       /\ search' = [query |-> query, platform |-> platform, limit |-> limit,
                     rows |-> rows, results |-> <<>>]
       /\ spc' = IF rows = <<>> THEN "return" ELSE "fetch"
  /\ UNCHANGED cvars

\* The largest limit search_memory passes on.
SearchLimitCap == 50

\* The tool search_memory: it normalizes the platform ("" is no filter) and
\* caps the limit.
SearchMemory(query, platform, limit) ==
  SearchConversations(query,
                      IF platform /= "" THEN NormalizePlatform(platform) ELSE "",
                      Min(limit, SearchLimitCap))

\* Mutation of ThreadOf: only the messages that match the query.
ThreadOfMatching(id) ==
  {m \in messages : m.conversation_id = id /\ TsMatch(m.content, search.query)}

\* SELECT ... FROM messages WHERE conversation_id = $1
ThreadOf(id) == {m \in messages : m.conversation_id = id}

\* ORDER BY created_at: every order the sort may produce.
OrderByCreated(rows) ==
  {s \in Perms(rows) :
     \A a, b \in 1..Len(s) : a < b => s[a].created_at <= s[b].created_at}

\* The loop body of search_conversations: the messages of the next row are
\* fetched and attached.
FetchMessages ==
  /\ spc = "fetch"
  /\ LET row == search.rows[Len(search.results) + 1]
     IN \E thread \in OrderByCreated(ThreadOf(row.id)) :
          search' = [search EXCEPT
                       !.results = Append(@, [id |-> row.id, messages |-> thread])]
  /\ spc' = IF Len(search.results) + 1 = Len(search.rows) THEN "return" ELSE "fetch"
  /\ UNCHANGED cvars

\* search_conversations returns its results.
SearchReturn ==
  /\ spc = "return"
  /\ spc' = "idle"
  /\ search' = IdleSearch
  /\ UNCHANGED cvars

\* ------------------------------------------------------------------------
\* A lone client, with the history of its save_knowledge_if_new calls
\* ------------------------------------------------------------------------

\* The last entry of the history if it is a call with the same arguments.
LastOf(h, category, content) ==
  IF h /= <<>> /\ h[Len(h)].category = category /\ h[Len(h)].content = content
  THEN <<h[Len(h)]>> ELSE <<>>

\* The call that starts: was the store free of similar rows when it started?
\* The history keeps the call before it if that had the same arguments.
HistStart(category, content) ==
  hist' = Append(LastOf(hist, category, content),
                 [category |-> category, content |-> content,
                  fresh |-> ExistingSimilar(category, content) = {},
                  status |-> "pending", id |-> 0])

\* The result of the call that runs, once save_knowledge_if_new has one.
HistResult ==
  hist' = IF hist /= <<>> /\ call'[P1].result /= NoResult
          THEN [hist EXCEPT ![Len(hist)].status = call'[P1].result.status,
                            ![Len(hist)].id = call'[P1].result.id]
          ELSE hist

Next ==
  \/ \E c \in Categories, x \in Contents :
       SaveKnowledgeIfNewCall(P1, c, x) /\ HistStart(c, x) /\ UNCHANGED <<cvars, svars, xvars>>
  \/ SelectExisting(P1) /\ HistResult /\ UNCHANGED <<cvars, svars, xvars>>
  \/ InsertKnowledge(P1) /\ HistResult /\ UNCHANGED <<cvars, svars, xvars>>
  \/ Return(P1) /\ UNCHANGED <<hist, cvars, svars, xvars>>
  \/ \E c \in Categories, x \in Contents : SaveKnowledge(c, x) /\ hist' = <<>> /\ UNCHANGED <<cvars, svars, xvars>>
  \/ \E k \in knowledge : DeleteKnowledgeEntry(k) /\ hist' = <<>> /\ UNCHANGED <<cvars, svars, xvars>>

Spec == Init /\ [][Next]_vars

\* ------------------------------------------------------------------------
\* Concurrent auto_extract_preferences requests
\* ------------------------------------------------------------------------

NextExtract ==
  \/ \E p \in Procs, s \in StatementLists :
       ExtractAndSavePreferences(p, s) /\ UNCHANGED <<hist, cvars, svars, xvars>>
  \/ \E p \in Procs : SelectExisting(p) /\ UNCHANGED <<hist, cvars, svars, xvars>>
  \/ \E p \in Procs : InsertKnowledge(p) /\ UNCHANGED <<hist, cvars, svars, xvars>>
  \/ \E p \in Procs : Return(p) /\ UNCHANGED <<hist, cvars, svars, xvars>>

SpecExtract == Init /\ [][NextExtract]_vars

\* ------------------------------------------------------------------------
\* Conversations and their search
\* ------------------------------------------------------------------------

\* Queries and platform filters passed to search_memory ("" is no filter).
Queries == {<<"postgresql">>, <<"the", "Prefers">>}

PlatformFilters == {"", "Cursor"}

\* Limits passed to search_memory.
Limits == {1, 2}

NextSearch ==
  \/ \E pl \in PlatformArgs, t \in Titles, sm \in Summaries, ms \in MessageLists :
       SaveConversation(pl, t, sm, ms) /\ UNCHANGED <<kvars, hist, svars, xvars>>
  \/ \E q \in Queries, pl \in PlatformFilters, n \in Limits :
       SearchMemory(q, pl, n) /\ UNCHANGED <<kvars, hist, xvars>>
  \/ FetchMessages /\ UNCHANGED <<kvars, hist, xvars>>
  \/ SearchReturn /\ UNCHANGED <<kvars, hist, xvars>>

SpecSearch == Init /\ [][NextSearch]_vars

\* ------------------------------------------------------------------------
\* Properties of the duplicate gate
\* ------------------------------------------------------------------------

\* The step in which request p runs the duplicate check of its current item.
CheckStep(p) == pc[p] = "select" /\ <<pc[p], call[p]>> /= <<pc'[p], call'[p]>>

\* The check step ended in the 'skipped' result.
CheckSkipped(p) == pc'[p] /= "insert" /\ call'[p].result.status = "skipped"

\* The terms two texts share.
SharedTerms(a, b) == ToTsVector(a) \cap ToTsVector(b)

\* C1: two consecutive calls save_knowledge_if_new(c, x) on a store without a
\* row of category c matching x return 'saved' with an id and then 'skipped'
\* with that id as existing_id, and the store then holds exactly one (c, x) row.
C1_SavedThenSkipped ==
  ( /\ Len(hist) = 2
    /\ hist[2].status /= "pending"
    /\ hist[1].category = hist[2].category
    /\ hist[1].content = hist[2].content
    /\ hist[1].fresh )
  => /\ hist[1].status = "saved"
     /\ hist[2].status = "skipped"
     /\ hist[2].id = hist[1].id
     /\ Cardinality({k \in knowledge : /\ k.category = hist[1].category
                                       /\ k.content = hist[1].content}) = 1

\* C2: save_knowledge_if_new(c, x) returns 'skipped' exactly when the store
\* holds a row of category c whose content full-text-matches x; rows of other
\* categories never cause a skip.
C2_SkippedIffSameCategoryMatch ==
  [][\A p \in Procs :
       CheckStep(p) =>
         ( CheckSkipped(p) <=>
             \E k \in knowledge : /\ k.category = Current(p).category
                                  /\ TsMatch(k.content, Current(p).content) )]_vars

\* C2 witness: a candidate was saved while the store held a row with the
\* identical content in another category.
C2_Witness ==
  /\ pc[P1] = "return"
  /\ call[P1].result.status = "saved"
  /\ \E k \in knowledge : /\ k.id /= call[P1].result.id
                          /\ k.content = Current(P1).content
                          /\ k.category /= Current(P1).category

\* C3: a 'skipped' result leaves the knowledge table as it was, and its
\* existing_id names a stored row of the candidate's category.
C3_SkippedLeavesStore ==
  [][\A p \in Procs :
       (CheckStep(p) /\ CheckSkipped(p)) =>
         /\ knowledge' = knowledge
         /\ nextKid' = nextKid
         /\ \E k \in knowledge' : /\ k.id = call'[p].result.id
                                  /\ k.category = Current(p).category]_vars

\* C3 witness: a call has returned 'skipped' with the id of a stored row.
C3_Witness ==
  /\ pc[P1] = "return"
  /\ call[P1].result.status = "skipped"
  /\ \E k \in knowledge : k.id = call[P1].result.id

C5_NoDuplicateRows ==
  \A k1, k2 \in knowledge :
    (k1.category = k2.category /\ k1.content = k2.content) => k1 = k2

\* ------------------------------------------------------------------------
\* Properties of the conversation search
\* ------------------------------------------------------------------------

\* The step in which the ranking statement of a search runs.
QueryStep == spc = "idle" /\ spc' /= "idle"

\* The step in which the messages of one more result are attached.
FetchStep == spc = "fetch" /\ Len(search'.results) = Len(search.results) + 1

ConvById(id) == CHOOSE c \in conversations : c.id = id

DirectlyMatched(c, query) == TsMatch(ConvDoc(c), query)

\* The scores of the messages of c that match the query.
MessageScores(c, query) ==
  {TsRank(m.content, query) :
     m \in {x \in messages : x.conversation_id = c.id /\ TsMatch(x.content, query)}}

\* The conversations a search for the query is about.
Candidates(query) ==
  {c \in conversations : DirectlyMatched(c, query) \/ MessageScores(c, query) /= {}}

\* The scores a candidate has, directly and through its messages.
ScoresOf(c, query) ==
  (IF DirectlyMatched(c, query) THEN {TsRank(ConvDoc(c), query)} ELSE {})
    \cup MessageScores(c, query)

\* The candidates of a platform (of every platform if platform is "").
CandidatesOf(query, platform) ==
  {c \in Candidates(query) : platform = "" \/ c.platform = platform}

RowIds(rows) == {rows[n].id : n \in 1..Len(rows)}

\* C6: the rank a returned conversation is ordered by is the maximum of its
\* title/summary score and the scores of its matching messages, so a
\* conversation whose title/summary score exceeds the best message score of a
\* conversation matched only through messages comes before that conversation.
C6_RankIsMaximum ==
  [][QueryStep =>
       LET q == search'.query
           rows == search'.rows
       IN /\ \A n \in 1..Len(rows) :
               /\ \A sc \in ScoresOf(ConvById(rows[n].id), q) : sc <= rows[n].rank
               /\ rows[n].rank \in ScoresOf(ConvById(rows[n].id), q)
          /\ \A a, b \in CandidatesOf(q, search'.platform) :
               ( /\ DirectlyMatched(a, q)
                 /\ ~DirectlyMatched(b, q)
                 /\ \A sc \in MessageScores(b, q) : TsRank(ConvDoc(a), q) > sc
                 /\ b.id \in RowIds(rows) )
               => \E m, n \in 1..Len(rows) :
                    m < n /\ rows[m].id = a.id /\ rows[n].id = b.id]_vars

\* C6 witness: a search returned a conversation matched by its title/summary
\* before one matched only through a message with a lower score, and the first
\* also has a matching message, so that maximum and sum differ.
C6_Witness ==
  /\ spc = "return"
  /\ Len(search.rows) = 2
  /\ LET a == ConvById(search.rows[1].id)
         b == ConvById(search.rows[2].id)
         q == search.query
     IN /\ DirectlyMatched(a, q)
        /\ MessageScores(a, q) /= {}
        /\ ~DirectlyMatched(b, q)
        /\ \A sc \in MessageScores(b, q) : TsRank(ConvDoc(a), q) > sc

\* C7: the result is the candidates of the requested platform, sorted by rank
\* descending and then by creation time descending, cut to the first `limit`;
\* it has min(limit, number of candidates of that platform) entries.
C7_SortedFilteredTruncated ==
  [][QueryStep =>
       LET q == search'.query
           rows == search'.rows
           cands == CandidatesOf(q, search'.platform)
       IN /\ \A m, n \in 1..Len(rows) :
               m < n => \/ rows[m].rank > rows[n].rank
                        \/ /\ rows[m].rank = rows[n].rank
                           /\ rows[m].created_at >= rows[n].created_at
          /\ RowIds(rows) \subseteq {c.id : c \in cands}
          /\ Len(rows) = Min(search'.limit, Cardinality(cands))
          /\ \A c \in cands :
               c.id \notin RowIds(rows) =>
                 \A n \in 1..Len(rows) :
                   \/ rows[n].rank > Max(ScoresOf(c, q))
                   \/ /\ rows[n].rank = Max(ScoresOf(c, q))
                      /\ rows[n].created_at >= c.created_at]_vars

\* C7 witness: a search with a platform filter returned two conversations of
\* equal rank, the one created later first.
C7_Witness ==
  /\ spc = "return"
  /\ search.platform /= ""
  /\ Len(search.rows) = 2
  /\ search.rows[1].rank = search.rows[2].rank
  /\ search.rows[1].created_at > search.rows[2].created_at

\* C8: every returned conversation matches the query by its title/summary or
\* has a matching message, every such conversation is returned when the limit
\* leaves room, and no conversation is listed twice.
C8_UnionWithoutRepeats ==
  [][QueryStep =>
       LET q == search'.query
           rows == search'.rows
       IN /\ RowIds(rows) \subseteq {c.id : c \in Candidates(q)}
          /\ \A m, n \in 1..Len(rows) : m /= n => rows[m].id /= rows[n].id
          /\ Len(rows) < search'.limit =>
               {c.id : c \in CandidatesOf(q, search'.platform)} \subseteq RowIds(rows)]_vars

\* C8 witness: a returned conversation matches by its title/summary and by
\* two messages of different scores.
C8_Witness ==
  /\ spc = "return"
  /\ \E n \in 1..Len(search.results) :
       LET c == ConvById(search.results[n].id)
       IN /\ DirectlyMatched(c, search.query)
          /\ Cardinality(MessageScores(c, search.query)) >= 2

\* C9: the messages attached to a returned conversation are in the order in
\* which save_conversation received them (the order of their identities).
C9_OriginalOrder ==
  \A n \in 1..Len(search.results) :
    LET thread == search.results[n].messages
    IN \A a, b \in 1..Len(thread) : a < b => thread[a].id < thread[b].id

\* C10: a returned conversation carries all of its stored messages, whether
\* they match the query or not, each once.
C10_AllMessagesAttached ==
  [][FetchStep =>
       LET e == search'.results[Len(search'.results)]
           stored == {m \in messages : m.conversation_id = e.id}
       IN /\ Range(e.messages) = stored
          /\ Len(e.messages) = Cardinality(stored)]_vars

\* C10 witness: a returned conversation carries a message that does not match
\* the query.
C10_Witness ==
  /\ spc = "return"
  /\ \E n \in 1..Len(search.results) :
       \E k \in 1..Len(search.results[n].messages) :
         ~TsMatch(search.results[n].messages[k].content, search.query)

\* ------------------------------------------------------------------------
\* The statement classifier on its own
\* ------------------------------------------------------------------------

\* Words in a statement handed to the classifier.
MaxWords == 3

\* The words the classified statements are written with: keywords of each
\* rule, in either letter case, an inflected keyword and other words.
ClassifyWords ==
  {"I", "Always", "use", "prefer", "Prefers", "never", "decided", "tabs"}

ClassifyInputs == UNION { [1..n -> ClassifyWords] : n \in 1..MaxWords }

InitClassify ==
  /\ InitStore
  /\ arg \in ClassifyInputs
  /\ ret = NoRet

\* A call _classify_statement(arg).
ClassifyStatement ==
  /\ ret = NoRet
  /\ ret' = <<_classify_statement(arg)>>
  /\ UNCHANGED <<dbvars, arg>>

NextClassify == ClassifyStatement

SpecClassify == InitClassify /\ [][NextClassify]_vars

\* The statement contains the word sequence kw as whole words, in any letter case.
ContainsWords(statement, kw) ==
  \E i \in 1..Len(statement) :
    /\ i + Len(kw) - 1 <= Len(statement)
    /\ \A j \in 1..Len(kw) : Lower(statement[i + j - 1]) = kw[j]

ContainsPreference(statement) ==
  \E kw \in PreferenceKeywords : ContainsWords(statement, kw)

ContainsInstruction(statement) ==
  \E kw \in InstructionKeywords : ContainsWords(statement, kw)

ContainsDecision(statement) ==
  \E kw \in DecisionKeywords : ContainsWords(statement, kw)

\* C11: the classifier returns one of preference, instruction, decision and
\* fact, the first in this order whose rule has a keyword (as whole words, in
\* any letter case) in the statement, and fact if no rule has one; a statement
\* with preference and instruction keywords is a preference.
C11_FirstMatchWins ==
  ret /= NoRet =>
    /\ Len(ret) = 1
    /\ ret[1] \in {"preference", "instruction", "decision", "fact"}
    /\ ret[1] = "preference" <=> ContainsPreference(arg)
    /\ ret[1] = "instruction" <=>
         (~ContainsPreference(arg) /\ ContainsInstruction(arg))
    /\ ret[1] = "decision" <=>
         (/\ ~ContainsPreference(arg)
          /\ ~ContainsInstruction(arg)
          /\ ContainsDecision(arg))
    /\ ret[1] = "fact" <=>
         (/\ ~ContainsPreference(arg)
          /\ ~ContainsInstruction(arg)
          /\ ~ContainsDecision(arg))

\* C11 witness: a statement with an instruction keyword before its preference
\* keyword was classified as a preference.
C11_Witness ==
  /\ ret = <<"preference">>
  /\ Len(arg) >= 2
  /\ ContainsWords(<<arg[1]>>, <<"never">>)
  /\ ContainsInstruction(arg)

\* ------------------------------------------------------------------------
\* The statement segmenter: _extract_statements
\* ------------------------------------------------------------------------
\* Here a text is a sequence of characters.

\* What \s matches and str.strip() removes.
IsSpace(c) == c \in {" ", "\n", "\t"}

\* The characters of the class of bullets, written here as -, * and U+2022.
Bullets == {"-", "*", "U+2022"}

\* \d
Digits == {"0", "1", "2", "3", "4", "5", "6", "7", "8", "9"}

\* [.!?]
Terminators == {".", "!", "?"}

RECURSIVE LStrip(_)
LStrip(s) == IF s /= <<>> /\ IsSpace(Head(s)) THEN LStrip(Tail(s)) ELSE s

RECURSIVE RStrip(_)
RStrip(s) ==
  IF s /= <<>> /\ IsSpace(s[Len(s)]) THEN RStrip(SubSeq(s, 1, Len(s) - 1)) ELSE s

\* str.strip()
Strip(s) == RStrip(LStrip(s))

RECURSIVE SkipNewlines(_)
SkipNewlines(s) ==
  IF s /= <<>> /\ Head(s) = "\n" THEN SkipNewlines(Tail(s)) ELSE s

\* re.split(r'\n+', s), with `cur` the piece that is being read.
RECURSIVE SplitNewlinesFrom(_, _)
SplitNewlinesFrom(rest, cur) ==
  IF rest = <<>> THEN <<cur>>
  ELSE IF Head(rest) = "\n"
       THEN <<cur>> \o SplitNewlinesFrom(SkipNewlines(rest), <<>>)
       ELSE SplitNewlinesFrom(Tail(rest), Append(cur, Head(rest)))

SplitNewlines(s) == SplitNewlinesFrom(s, <<>>)

\* re.sub(r'^\s*[bullet]\s*', '', line)
StripBulletMarker(line) ==
  LET t == LStrip(line)
  IN IF t /= <<>> /\ Head(t) \in Bullets THEN LStrip(Tail(t)) ELSE line

RECURSIVE SkipDigits(_)
SkipDigits(s) ==
  IF s /= <<>> /\ Head(s) \in Digits THEN SkipDigits(Tail(s)) ELSE s

\* re.sub(r'^\s*\d+[.)]\s*', '', line)
StripNumberMarker(line) ==
  LET t == LStrip(line)
      u == SkipDigits(t)
  IN IF Len(u) < Len(t) /\ u /= <<>> /\ Head(u) \in {".", ")"}
     THEN LStrip(Tail(u)) ELSE line

\* re.split(r'(?<=[.!?])\s+', line), with `cur` the piece that is being read:
\* a run of whitespace that follows a terminator separates two pieces.
RECURSIVE SplitSentencesFrom(_, _)
SplitSentencesFrom(rest, cur) ==
  IF rest = <<>> THEN <<cur>>
  ELSE IF IsSpace(Head(rest)) /\ cur /= <<>> /\ cur[Len(cur)] \in Terminators
       THEN <<cur>> \o SplitSentencesFrom(LStrip(rest), <<>>)
       ELSE SplitSentencesFrom(Tail(rest), Append(cur, Head(rest)))

SplitSentences(line) == SplitSentencesFrom(line, <<>>)

\* Lines shorter than this are dropped.
MinLineChars == 10

\* Mutation of KeepSentences: the length of a sentence is not looked at.
KeepSentencesOfAnyLength(sentences) ==
  [n \in 1..Len(sentences) |-> Strip(sentences[n])]

\* The inner loop: `s = s.strip()` and `if len(s) >= 10: statements.append(s)`.
KeepSentences(sentences) ==
  SelectSeq([n \in 1..Len(sentences) |-> Strip(sentences[n])],
            LAMBDA x : Len(x) >= MinStatementChars)

\* The line without its list markers and the whitespace around it.
CleanLine(line) == Strip(StripNumberMarker(StripBulletMarker(line)))

\* The body of the outer loop for one line.
StatementsOfLine(line) ==
  IF CleanLine(line) = <<>> \/ Len(CleanLine(line)) < MinLineChars THEN <<>>
  ELSE KeepSentences(SplitSentences(CleanLine(line)))

\* Mutation of StatementsOfLines: the statements of a line are put before
\* those of the lines read so far.
RECURSIVE StatementsOfLinesReversed(_)
StatementsOfLinesReversed(lines) ==
  IF lines = <<>> THEN <<>>
  ELSE StatementsOfLinesReversed(Tail(lines)) \o StatementsOfLine(Head(lines))

\* The outer loop.
RECURSIVE StatementsOfLines(_)
StatementsOfLines(lines) ==
  IF lines = <<>> THEN <<>>
  ELSE StatementsOfLine(Head(lines)) \o StatementsOfLines(Tail(lines))

_extract_statements(text) == StatementsOfLines(SplitNewlines(Strip(text)))

\* Pieces a text handed to the segmenter is put together from.
MaxPieces == 4

Letters9 == <<"b", "b", "b", "b", "b", "b", "b", "b", "b">>

Letters10 == <<"a", "a", "a", "a", "a", "a", "a", "a", "a", "a">>

\* A run of letters of 9 and of 10 characters, a blank, a newline, a bullet
\* marker, the two kinds of number markers and the end of a sentence.
Pieces ==
  { Letters9, Letters10, <<" ">>, <<"\n">>, <<"-", " ">>, <<"2", ")", " ">>,
    <<"1", ".", " ">>, <<"!", " ">> }

RECURSIVE Concat(_)
Concat(ps) == IF ps = <<>> THEN <<>> ELSE Head(ps) \o Concat(Tail(ps))

Texts == { Concat(ps) : ps \in UNION { [1..n -> Pieces] : n \in 0..MaxPieces } }

InitSegment ==
  /\ InitStore
  /\ arg \in Texts
  /\ ret = NoRet

\* A call _extract_statements(arg); the result is kept in a 1-tuple.
ExtractStatements ==
  /\ ret = NoRet
  /\ ret' = <<_extract_statements(arg)>>
  /\ UNCHANGED <<dbvars, arg>>

NextSegment == ExtractStatements

SpecSegment == InitSegment /\ [][NextSegment]_vars

\* The lines of a text: the pieces between its newline characters.
RECURSIVE LinesOfFrom(_, _)
LinesOfFrom(rest, cur) ==
  IF rest = <<>> THEN <<cur>>
  ELSE IF Head(rest) = "\n" THEN <<cur>> \o LinesOfFrom(Tail(rest), <<>>)
       ELSE LinesOfFrom(Tail(rest), Append(cur, Head(rest)))

LinesOf(text) == LinesOfFrom(text, <<>>)

HasTerminator(line) == \E n \in 1..Len(line) : line[n] \in Terminators

\* part occurs in whole as a run of consecutive characters.
IsPartOf(part, whole) ==
  \E n \in 0..Len(whole) :
    n + Len(part) <= Len(whole) /\ SubSeq(whole, n + 1, n + Len(part)) = part

\* C12 as stated: a text of N lines, each of at least 10 characters and
\* without a sentence terminator, gives exactly N statements, the i-th taken
\* from the i-th line.
C12_OneStatementPerRawLine ==
  ret /= NoRet =>
    LET lines == LinesOf(arg)
    IN (\A n \in 1..Len(lines) :
          Len(lines[n]) >= 10 /\ ~HasTerminator(lines[n]))
       => /\ Len(ret[1]) = Len(lines)
          /\ \A n \in 1..Len(lines) : IsPartOf(ret[1][n], lines[n])

\* C12 as amended: a text of N lines without a sentence terminator, each of at
\* least 10 characters once its leading list marker and the whitespace around
\* it are removed, gives exactly N statements, the i-th being the i-th line
\* without its marker and the whitespace around it.
C12_OneStatementPerCleanLine ==
  ret /= NoRet =>
    LET lines == LinesOf(arg)
    IN (\A n \in 1..Len(lines) :
          Len(CleanLine(lines[n])) >= 10 /\ ~HasTerminator(lines[n]))
       => /\ Len(ret[1]) = Len(lines)
          /\ \A n \in 1..Len(lines) : ret[1][n] = CleanLine(lines[n])

\* C12 witness: two lines gave two statements, one of the lines with a marker
\* or whitespace that the statement does not have.
C12_Witness ==
  /\ ret /= NoRet
  /\ Len(LinesOf(arg)) = 2
  /\ \A n \in 1..2 : ~HasTerminator(LinesOf(arg)[n])
  /\ Len(ret[1]) = 2
  /\ \E n \in 1..2 : ret[1][n] /= LinesOf(arg)[n]

\* C13: every statement the segmenter returns has at least 10 characters,
\* neither starts nor ends with whitespace and does not consist of whitespace.
C13_StatementsAreTrimmed ==
  ret /= NoRet =>
    \A n \in 1..Len(ret[1]) :
      LET x == ret[1][n]
      IN /\ x /= <<>>
         /\ Len(x) >= 10
         /\ ~IsSpace(x[1])
         /\ ~IsSpace(x[Len(x)])
         /\ \E k \in 1..Len(x) : ~IsSpace(x[k])

\* C13 witness: a statement was returned for a text that starts with
\* whitespace and has a line with a second sentence, which is too short.
C13_Witness ==
  /\ ret /= NoRet
  /\ Len(ret[1]) = 1
  /\ IsSpace(arg[1])
  /\ \E line \in Range(LinesOf(arg)) :
       /\ Len(SplitSentences(CleanLine(line))) = 2
       /\ Len(CleanLine(line)) >= MinLineChars

\* ------------------------------------------------------------------------
\* The tag inferencer: _extract_tags
\* ------------------------------------------------------------------------

UpperAlphabet ==
  <<"A", "B", "C", "D", "E", "F", "G", "H", "I", "J", "K", "L", "M",
    "N", "O", "P", "Q", "R", "S", "T", "U", "V", "W", "X", "Y", "Z">>

LowerAlphabet ==
  <<"a", "b", "c", "d", "e", "f", "g", "h", "i", "j", "k", "l", "m",
    "n", "o", "p", "q", "r", "s", "t", "u", "v", "w", "x", "y", "z">>

\* str.lower() on one character.
LowerChar(c) ==
  IF \E n \in 1..Len(UpperAlphabet) : UpperAlphabet[n] = c
  THEN LowerAlphabet[CHOOSE n \in 1..Len(UpperAlphabet) : UpperAlphabet[n] = c]
  ELSE c

\* text.lower()
LowerText(text) == [n \in 1..Len(text) |-> LowerChar(text[n])]

\* What \w matches.
IsWordChar(c) ==
  c \in Range(UpperAlphabet) \cup Range(LowerAlphabet) \cup Digits \cup {"_"}

\* \b at the position before character n of the text (n = Len + 1: its end).
Boundary(text, n) ==
  (n - 1 \in 1..Len(text) /\ IsWordChar(text[n - 1]))
    /= (n \in 1..Len(text) /\ IsWordChar(text[n]))

\* The `.` of a pattern: it stands for any character but a newline.
AnyChar == "any"

\* The alternatives of a pattern: \bxyz\b, \bxyz, xyz\b and xyz.
Whole(chars) == [chars |-> chars, left |-> TRUE, right |-> TRUE]

Starts(chars) == [chars |-> chars, left |-> TRUE, right |-> FALSE]

Ends(chars) == [chars |-> chars, left |-> FALSE, right |-> TRUE]

Part(chars) == [chars |-> chars, left |-> FALSE, right |-> FALSE]

\* tag_patterns, in the order of the dict.  In r'\ba|b|c\b' the first \b
\* belongs to a alone and the last to c alone; an optional group is written
\* out as one alternative with it and one without it.
TagPatterns ==
  <<
     [tag |-> "python",
      alts |-> {Whole(<<"p", "y", "t", "h", "o", "n">>)}],
     [tag |-> "javascript",
      alts |-> {Starts(<<"j", "a", "v", "a", "s", "c", "r", "i", "p", "t">>),
               Part(<<"j", "s">>),
               Part(<<"n", "o", "d", "e", ".", "j", "s">>),
               Part(<<"n", "o", "d", "e", "j", "s">>),
               Part(<<"t", "y", "p", "e", "s", "c", "r", "i", "p", "t">>),
               Ends(<<"t", "s">>)}],
     [tag |-> "docker",
      alts |-> {Whole(<<"d", "o", "c", "k", "e", "r">>)}],
     [tag |-> "postgresql",
      alts |-> {Whole(<<"p", "o", "s", "t", "g", "r", "e", "s", "q", "l">>),
               Whole(<<"p", "o", "s", "t", "g", "r", "e", "s">>),
               Whole(<<"p", "o", "s", "t", "g", "r", "e">>)}],
     [tag |-> "react",
      alts |-> {Whole(<<"r", "e", "a", "c", "t">>)}],
     [tag |-> "aws",
      alts |-> {Whole(<<"a", "w", "s">>)}],
     [tag |-> "linux",
      alts |-> {Whole(<<"l", "i", "n", "u", "x">>)}],
     [tag |-> "git",
      alts |-> {Whole(<<"g", "i", "t", "h", "u", "b">>),
               Whole(<<"g", "i", "t", "l", "a", "b">>),
               Whole(<<"g", "i", "t">>)}],
     [tag |-> "api",
      alts |-> {Starts(<<"a", "p", "i">>),
               Part(<<"r", "e", "s", "t">>),
               Ends(<<"g", "r", "a", "p", "h", "q", "l">>)}],
     [tag |-> "database",
      alts |-> {Starts(<<"d", "a", "t", "a", "b", "a", "s", "e">>),
               Part(<<"d", "b">>),
               Part(<<"s", "q", "l">>),
               Part(<<"m", "y", "s", "q", "l">>),
               Ends(<<"m", "o", "n", "g", "o">>)}],
     [tag |-> "testing",
      alts |-> {Whole(<<"t", "e", "s", "t", "i", "n", "g">>),
               Whole(<<"t", "e", "s", "t", "s">>),
               Whole(<<"t", "e", "s", "t">>)}],
     [tag |-> "deployment",
      alts |-> {Whole(<<"d", "e", "p", "l", "o", "y", "m", "e", "n", "t">>),
               Whole(<<"d", "e", "p", "l", "o", "y", "i", "n", "g">>),
               Whole(<<"d", "e", "p", "l", "o", "y">>)}],
     [tag |-> "security",
      alts |-> {Starts(<<"s", "e", "c", "u", "r", "i", "t", "y">>),
               Ends(<<"a", "u", "t", "h", "e", "n", "t", "i", "c", "a", "t", "i", "o", "n">>),
               Ends(<<"a", "u", "t", "h">>)}],
     [tag |-> "frontend",
      alts |-> {Starts(<<"f", "r", "o", "n", "t", "e", "n", "d">>),
               Part(<<"f", "r", "o", "n", "t", "-", "e", "n", "d">>),
               Part(<<"c", "s", "s">>),
               Ends(<<"h", "t", "m", "l">>)}],
     [tag |-> "backend",
      alts |-> {Starts(<<"b", "a", "c", "k", "e", "n", "d">>),
               Part(<<"b", "a", "c", "k", "-", "e", "n", "d">>),
               Ends(<<"s", "e", "r", "v", "e", "r">>)}],
     [tag |-> "devops",
      alts |-> {Starts(<<"d", "e", "v", "o", "p", "s">>),
               Part(<<"c", "i", "/", "c", "d">>),
               Part(<<"c", "i", "c", "d">>),
               Ends(<<"p", "i", "p", "e", "l", "i", "n", "e">>)}],
     [tag |-> "ai",
      alts |-> {Starts(<<"a", "i">>),
               Part(<<"m", "l">>),
               Part(<<"l", "l", "m">>),
               Ends(<<"m", "a", "c", "h", "i", "n", "e", AnyChar, "l", "e", "a", "r", "n", "i", "n", "g">>)}],
     [tag |-> "coding-style",
      alts |-> {Starts(<<"s", "t", "y", "l", "e">>),
               Part(<<"c", "o", "n", "v", "e", "n", "t", "i", "o", "n">>),
               Part(<<"p", "a", "t", "t", "e", "r", "n">>),
               Ends(<<"c", "l", "e", "a", "n", AnyChar, "c", "o", "d", "e">>)}]
  >>

TableTags == {TagPatterns[n].tag : n \in 1..Len(TagPatterns)}

\* The characters of the alternative are at position n of the text.
CharsAt(alt, text, n) ==
  /\ n + Len(alt.chars) - 1 <= Len(text)
  /\ \A k \in 1..Len(alt.chars) :
       \/ alt.chars[k] = text[n + k - 1]
       \/ alt.chars[k] = AnyChar /\ text[n + k - 1] /= "\n"

\* re.search(pattern, lower) for the pattern with these alternatives.
Search(alts, lower) ==
  \E alt \in alts :
    \E n \in 1..Len(lower) :
      /\ CharsAt(alt, lower, n)
      /\ alt.left => Boundary(lower, n)
      /\ alt.right => Boundary(lower, n + Len(alt.chars))

\* Mutation of _extract_tags: the patterns are searched in the text as it
\* is, not in its lower-case form.
_extract_tags_case_sensitive(text) ==
  LET hit == SelectSeq(TagPatterns, LAMBDA row : Search(row.alts, text))
  IN [n \in 1..Len(hit) |-> hit[n].tag]

\* The tags whose pattern is found in the lower-cased text, in table order.
_extract_tags(text) ==
  LET hit == SelectSeq(TagPatterns, LAMBDA row : Search(row.alts, LowerText(text)))
  IN [n \in 1..Len(hit) |-> hit[n].tag]

\* Words in a statement handed to the tag inferencer.
MaxTagWords == 3

\* The words of these statements: keywords in upper and mixed case, a
\* keyword inside a longer word, and words without a keyword.
TagWords ==
  { <<"D", "o", "c", "k", "e", "r">>,
    <<"A", "W", "S">>,
    <<"d", "e", "p", "l", "o", "y">>,
    <<"j", "s", "o", "n">>,
    <<"t", "e", "s", "t", "s">>,
    <<"s", "u", "n", "n", "y">>,
    <<"d", "a", "y">>,
    <<"P", "o", "s", "t", "g", "r", "e", "S", "Q", "L">> }

RECURSIVE JoinWords(_)
JoinWords(ws) ==
  IF ws = <<>> THEN <<>>
  ELSE IF Len(ws) = 1 THEN ws[1]
  ELSE ws[1] \o <<" ">> \o JoinWords(Tail(ws))

TagStatements ==
  { JoinWords(ws) : ws \in UNION { [1..n -> TagWords] : n \in 1..MaxTagWords } }

InitTags ==
  /\ InitStore
  /\ arg \in TagStatements
  /\ ret = NoRet

\* A call _extract_tags(arg); the result is kept in a 1-tuple.
ExtractTags ==
  /\ ret = NoRet
  /\ ret' = <<_extract_tags(arg)>>
  /\ UNCHANGED <<dbvars, arg>>

NextTags == ExtractTags

SpecTags == InitTags /\ [][NextTags]_vars

\* The keyword occurs somewhere in the text.
Occurs(chars, text) == \E n \in 1..Len(text) : CharsAt(Part(chars), text, n)

\* The keyword occurs in the text with a word boundary on both of its sides.
OccursAsWord(chars, text) ==
  \E n \in 1..Len(text) :
    /\ CharsAt(Part(chars), text, n)
    /\ Boundary(text, n)
    /\ Boundary(text, n + Len(chars))

\* C14: a tag of the table is in the result whenever one of its keywords is
\* a whole word of the statement, in any letter case; the result has tags of
\* the table only, none of them twice, and no tag at all when no keyword of
\* the table occurs in the statement.
C14_TagsOfKeywords ==
  ret /= NoRet =>
    LET tags == ret[1]
        lower == LowerText(arg)
    IN /\ \A n \in 1..Len(TagPatterns) :
            (\E alt \in TagPatterns[n].alts : OccursAsWord(alt.chars, lower))
              => TagPatterns[n].tag \in Range(tags)
       /\ Range(tags) \subseteq TableTags
       /\ \A i, j \in 1..Len(tags) : i /= j => tags[i] /= tags[j]
       /\ (\A n \in 1..Len(TagPatterns) :
             \A alt \in TagPatterns[n].alts : ~Occurs(alt.chars, lower))
            => tags = <<>>

\* C14 witness: a statement with the words Docker and AWS, written with
\* capitals, got the tags docker and aws.
C14_Witness ==
  /\ ret /= NoRet
  /\ {"docker", "aws"} \subseteq Range(ret[1])
  /\ OccursAsWord(<<"d", "o", "c", "k", "e", "r">>, LowerText(arg))
  /\ ~OccursAsWord(<<"d", "o", "c", "k", "e", "r">>, arg)
  /\ OccursAsWord(<<"A", "W", "S">>, arg)

\* ------------------------------------------------------------------------
\* Conversations statement by statement: save_conversation,
\* add_messages_to_conversation, delete_conversation
\* ------------------------------------------------------------------------
\* conversations and messages hold the committed rows, which is what the
\* statements of other requests see; the rows a transaction has inserted are
\* kept in tx[p].pending until it commits.

\* The variables that no operation on conversations touches.
nonconv == <<kvars, hist, svars, fvars, knowTags, pvars>>

\* f with the value v at k.
Put(f, k, v) == [x \in DOMAIN f \cup {k} |-> IF x = k THEN v ELSE f[x]]

\* f without k.
Drop(f, k) == [x \in DOMAIN f \ {k} |-> f[x]]

ConvIds == {c.id : c \in conversations}

\* The row of the conversation that request p is saving.
ConvRowOf(p) ==
  [id |-> tx[p].cid, platform |-> tx[p].platform, title |-> tx[p].title,
   summary |-> tx[p].summary, created_at |-> tx[p].start]

\* The row of the next message of request p.
NextMessageRow(p) ==
  [id |-> nextMid, conversation_id |-> tx[p].cid,
   content |-> tx[p].msgs[Len(tx[p].pending) + 1], created_at |-> tx[p].start]

\* save_conversation opens its transaction and inserts the conversation row.
SaveConversationBegin(p, platform, title, summary, tags, msgs) ==
  /\ tpc[p] = "idle"
  /\ nextCid <= MaxConvs
  /\ now' = now + 1
  /\ tx' = [tx EXCEPT ![p] =
              [IdleTx EXCEPT !.op = "save", !.cid = nextCid, !.platform = platform,
                             !.title = title, !.summary = summary, !.tags = tags,
                             !.msgs = msgs, !.start = now']]
  /\ tpc' = [tpc EXCEPT ![p] = "save_insert"]
  /\ nextCid' = nextCid + 1
  /\ passed' = Put(passed, nextCid, msgs)
  /\ UNCHANGED <<conversations, messages, nextMid, convTags, nonconv>>

\* Mutation of SaveConversationInsertMessage: no transaction, every insert is
\* committed at once.
SaveConversationInsertMessageAutocommit(p) ==
  /\ tpc[p] = "save_insert"
  /\ Len(tx[p].pending) < Len(tx[p].msgs)
  /\ tx' = [tx EXCEPT ![p].pending = Append(@, NextMessageRow(p))]
  /\ nextMid' = nextMid + 1
  /\ conversations' = conversations \cup {ConvRowOf(p)}
  /\ messages' = messages \cup {NextMessageRow(p)}
  /\ UNCHANGED <<nextCid, now, tpc, convTags, passed, nonconv>>

\* One turn of `for msg in messages`: the insert of a message row.
SaveConversationInsertMessage(p) ==
  /\ tpc[p] = "save_insert"
  /\ Len(tx[p].pending) < Len(tx[p].msgs)
  /\ tx' = [tx EXCEPT ![p].pending = Append(@, NextMessageRow(p))]
  /\ nextMid' = nextMid + 1
  /\ UNCHANGED <<conversations, messages, nextCid, now, tpc, convTags, passed,
                 nonconv>>

\* The insert of a message fails (a role longer than VARCHAR(20), a content
\* that is None, a lost connection): the exception leaves the transaction
\* block, which rolls back, and reaches the caller.
SaveConversationFails(p) ==
  /\ tpc[p] = "save_insert"
  /\ Len(tx[p].pending) < Len(tx[p].msgs)
  /\ tx' = [tx EXCEPT ![p] = IdleTx]
  /\ tpc' = [tpc EXCEPT ![p] = "idle"]
  /\ UNCHANGED <<conversations, messages, nextCid, nextMid, now, convTags, passed,
                 nonconv>>

\* The loop is over: the transaction commits and save_conversation returns.
SaveConversationCommit(p) ==
  /\ tpc[p] = "save_insert"
  /\ Len(tx[p].pending) = Len(tx[p].msgs)
  /\ conversations' = conversations \cup {ConvRowOf(p)}
  /\ messages' = messages \cup Range(tx[p].pending)
  /\ convTags' = Put(convTags, tx[p].cid, tx[p].tags)
  /\ tx' = [tx EXCEPT ![p] = IdleTx]
  /\ tpc' = [tpc EXCEPT ![p] = "idle"]
  /\ UNCHANGED <<nextCid, nextMid, now, passed, nonconv>>

\* Message rows ever inserted before the last add_messages_to_conversation
\* call of a behaviour starts.
MaxMessages == 4

\* add_messages_to_conversation up to its transaction: the SELECT that looks
\* for the conversation, and the 'not found' result.
AddMessagesCheck(p, cid, msgs) ==
  /\ tpc[p] = "idle"
  /\ nextMid <= MaxMessages
  /\ tx' = [tx EXCEPT ![p] = [IdleTx EXCEPT !.op = "add", !.cid = cid, !.msgs = msgs]]
  /\ tpc' = [tpc EXCEPT ![p] = IF cid \in ConvIds THEN "add_begin" ELSE "add_missing"]
  /\ UNCHANGED <<cvars, convTags, passed, nonconv>>

\* `return {"error": "Conversation not found"}`
AddMessagesNotFound(p) ==
  /\ tpc[p] = "add_missing"
  /\ tx' = [tx EXCEPT ![p] = IdleTx]
  /\ tpc' = [tpc EXCEPT ![p] = "idle"]
  /\ UNCHANGED <<cvars, convTags, passed, nonconv>>

\* `async with conn.transaction()`: NOW() is the time of this moment.
AddMessagesBegin(p) ==
  /\ tpc[p] = "add_begin"
  /\ now' = now + 1
  /\ tx' = [tx EXCEPT ![p].start = now']
  /\ tpc' = [tpc EXCEPT ![p] = "add_insert"]
  /\ UNCHANGED <<conversations, messages, nextCid, nextMid, convTags, passed,
                 nonconv>>

\* One turn of `for msg in messages`.  The foreign key of messages refuses a
\* row whose conversation is gone: the exception rolls the transaction back
\* and reaches the caller.
AddMessagesInsert(p) ==
  /\ tpc[p] = "add_insert"
  /\ Len(tx[p].pending) < Len(tx[p].msgs)
  /\ IF tx[p].cid \in ConvIds
     THEN /\ tx' = [tx EXCEPT ![p].pending = Append(@, NextMessageRow(p))]
          /\ nextMid' = nextMid + 1
          /\ tpc' = tpc
     ELSE /\ tx' = [tx EXCEPT ![p] = IdleTx]
          /\ nextMid' = nextMid
          /\ tpc' = [tpc EXCEPT ![p] = "idle"]
  /\ UNCHANGED <<conversations, messages, nextCid, now, convTags, passed, nonconv>>

\* The UPDATE of updated_at (a column the model does not keep) and the commit.
AddMessagesCommit(p) ==
  /\ tpc[p] = "add_insert"
  /\ Len(tx[p].pending) = Len(tx[p].msgs)
  /\ messages' = messages \cup Range(tx[p].pending)
  /\ tpc' = [tpc EXCEPT ![p] = "add_count"]
  /\ UNCHANGED <<conversations, nextCid, nextMid, now, tx, convTags, passed,
                 nonconv>>

\* SELECT COUNT(*) and the return of add_messages_to_conversation.
AddMessagesCount(p) ==
  /\ tpc[p] = "add_count"
  /\ tx' = [tx EXCEPT ![p] = IdleTx]
  /\ tpc' = [tpc EXCEPT ![p] = "idle"]
  /\ UNCHANGED <<cvars, convTags, passed, nonconv>>

\* A transaction that inserted a message holds a lock on the row of the
\* conversation it references until it ends; a DELETE of that row waits.
Locked(cid) ==
  \E p \in Procs :
    tpc[p] = "add_insert" /\ tx[p].cid = cid /\ tx[p].pending /= <<>>

\* Mutation of DeleteConversation: the messages of the conversation stay.
DeleteConversationOnly(cid) ==
  /\ cid \in ConvIds
  /\ ~Locked(cid)
  /\ conversations' = {c \in conversations : c.id /= cid}
  /\ convTags' = Drop(convTags, cid)
  /\ UNCHANGED <<messages, nextCid, nextMid, now, rvars, passed, nonconv>>

\* delete_conversation of a stored conversation: DELETE FROM conversations,
\* with ON DELETE CASCADE on messages.conversation_id.
DeleteConversation(cid) ==
  /\ cid \in ConvIds
  /\ ~Locked(cid)
  /\ conversations' = {c \in conversations : c.id /= cid}
  /\ messages' = {m \in messages : m.conversation_id /= cid}
  /\ convTags' = Drop(convTags, cid)
  /\ UNCHANGED <<nextCid, nextMid, now, rvars, passed, nonconv>>

\* Message lists passed to save_conversation when it runs statement by statement.
ThreadLists == { <<>>, << <<"prefer">>, <<"postgresql">> >> }

\* Message lists passed to add_messages_to_conversation.
AddLists == { << <<"the">>, <<"prefer">> >> }

\* One request that saves conversations and one that adds messages to
\* conversations, while conversations are deleted.
NextThread ==
  \/ \E ms \in ThreadLists :
       SaveConversationBegin(P1, "cursor", <<>>, <<>>, <<>>, ms)
  \/ SaveConversationInsertMessage(P1)
  \/ SaveConversationFails(P1)
  \/ SaveConversationCommit(P1)
  \/ \E cid \in 1..MaxConvs, ms \in AddLists : AddMessagesCheck(P2, cid, ms)
  \/ AddMessagesNotFound(P2)
  \/ AddMessagesBegin(P2)
  \/ AddMessagesInsert(P2)
  \/ AddMessagesCommit(P2)
  \/ AddMessagesCount(P2)
  \/ \E cid \in ConvIds : DeleteConversation(cid)

SpecThread == Init /\ [][NextThread]_vars

\* The stored messages that the save_conversation call of c inserted: they
\* carry the time of its transaction.
SavedWith(c) == {m \in ThreadOf(c.id) : m.created_at = c.created_at}

\* The stored conversation c has every message that was passed to its call.
Complete(c) ==
  /\ c.id \in DOMAIN passed
  /\ Cardinality(SavedWith(c)) = Len(passed[c.id])
  /\ {m.content : m \in SavedWith(c)} = Range(passed[c.id])

AllComplete == \A c \in conversations : Complete(c)

\* The step in which the save_conversation call of p fails at a message.
SaveFailStep(p) ==
  /\ tpc[p] = "save_insert"
  /\ tpc'[p] = "idle"
  /\ Len(tx[p].pending) < Len(tx[p].msgs)

\* C15: every conversation in the committed store, which is what other
\* requests see, has all the messages passed to its save_conversation call;
\* a call that fails at one of its messages leaves no row behind, neither the
\* conversation nor the messages inserted before the failure.
C15_AllOrNothing ==
  [][/\ AllComplete'
     /\ \A p \in Procs :
          SaveFailStep(p) =>
            /\ conversations' = conversations
            /\ messages' = messages
            /\ tx[p].cid \notin ConvIds'
            /\ \A m \in messages' : m.conversation_id /= tx[p].cid]_vars

\* C15 witness: a save_conversation call has inserted the first of its two
\* messages, and the store shows neither its conversation nor that message
\* while it shows an earlier conversation with both of its messages.
C15_Witness ==
  /\ tpc[P1] = "save_insert"
  /\ Len(tx[P1].msgs) = 2
  /\ Len(tx[P1].pending) = 1
  /\ tx[P1].cid \notin ConvIds
  /\ \A m \in messages : m.conversation_id /= tx[P1].cid
  /\ \E c \in conversations : Cardinality(SavedWith(c)) = 2

\* Every stored message references exactly one stored conversation.
AllOwned ==
  \A m \in messages :
    Cardinality({c \in conversations : c.id = m.conversation_id}) = 1

\* C19: every stored message references exactly one stored conversation, a
\* message keeps its reference as long as it is stored, and the step that
\* deletes a conversation removes all of its messages.
C19_MessagesBelong ==
  [][/\ AllOwned'
     /\ \A m \in messages : \A m2 \in messages' :
          m2.id = m.id => m2.conversation_id = m.conversation_id
     /\ \A cid \in ConvIds \ ConvIds' :
          \A m \in messages' : m.conversation_id /= cid]_vars

\* C19 witness: add_messages_to_conversation has committed its messages, and
\* the conversation has been deleted since, together with these messages.
C19_Witness ==
  /\ tpc[P2] = "add_count"
  /\ tx[P2].msgs /= <<>>
  /\ tx[P2].cid \notin ConvIds
  /\ Range(tx[P2].pending) \cap messages = {}
  /\ messages /= {}

\* ------------------------------------------------------------------------
\* Extraction with a store that can fail
\* ------------------------------------------------------------------------

StoreError == [status |-> "error", id |-> 0]

\* Mutation of StoreFails: the failure is caught, and the loop goes on with
\* the next statement.
StoreFailsAndContinues(p) ==
  /\ pc[p] \in {"select", "insert"}
  /\ AfterResult(p, StoreError)
  /\ UNCHANGED <<knowledge, nextKid>>

\* A statement of save_knowledge_if_new raises (the SELECT or the INSERT).
\* Neither save_knowledge_if_new nor the loop of extract_and_save_preferences
\* catches it: the handler is left at this point.
StoreFails(p) ==
  /\ pc[p] \in {"select", "insert"}
  /\ call' = [call EXCEPT ![p].result = StoreError]
  /\ pc' = [pc EXCEPT ![p] = "raised"]
  /\ UNCHANGED <<knowledge, nextKid>>

\* The exception reaches the caller of the handler.
Raise(p) ==
  /\ pc[p] = "raised"
  /\ pc' = [pc EXCEPT ![p] = "idle"]
  /\ call' = [call EXCEPT ![p] = IdleCall]
  /\ UNCHANGED <<knowledge, nextKid>>

\* One auto_extract_preferences request at a time, on a store that can fail.
NextFailing ==
  \/ \E s \in StatementLists :
       ExtractAndSavePreferences(P1, s) /\ UNCHANGED <<hist, cvars, svars, xvars>>
  \/ SelectExisting(P1) /\ UNCHANGED <<hist, cvars, svars, xvars>>
  \/ InsertKnowledge(P1) /\ UNCHANGED <<hist, cvars, svars, xvars>>
  \/ Return(P1) /\ UNCHANGED <<hist, cvars, svars, xvars>>
  \/ StoreFails(P1) /\ UNCHANGED <<hist, cvars, svars, xvars>>
  \/ Raise(P1) /\ UNCHANGED <<hist, cvars, svars, xvars>>

SpecFailing == Init /\ [][NextFailing]_vars

\* The step in which a statement of the store fails for request p.
StoreFailStep(p) ==
  /\ pc[p] \in {"select", "insert"}
  /\ call'[p].result = StoreError

\* The rows that request p reports as saved are stored.
SavedPersisted(p) ==
  \A n \in 1..Len(call[p].saved) : \E k \in knowledge : k.id = call[p].saved[n]

\* C16: when the store fails at the k-th statement of an extraction call, the
\* rows saved for the statements before k stay in the store, the call takes
\* up no further statement and does not try the k-th again: it is left with
\* the failure, which reaches the caller.
C16_FailureStopsTheLoop ==
  [][\A p \in Procs :
       /\ StoreFailStep(p) =>
            /\ pc'[p] = "raised"
            /\ knowledge' = knowledge
            /\ call'[p].i = call[p].i
            /\ call'[p].saved = call[p].saved
            /\ SavedPersisted(p)'
            /\ Len(call[p].saved) < call[p].i
       /\ pc[p] = "raised" =>
            /\ pc'[p] = "idle"
            /\ call'[p] = IdleCall
            /\ knowledge' = knowledge]_vars

\* C16 witness: the store has failed at the second statement of a call
\* whose first statement was saved, and the row of the first is stored.
C16_Witness ==
  /\ pc[P1] = "raised"
  /\ call[P1].op = "extract"
  /\ call[P1].i = 2
  /\ Len(call[P1].saved) = 1
  /\ SavedPersisted(P1)

\* ------------------------------------------------------------------------
\* Tags of stored rows: update_conversation_tags, save_knowledge
\* ------------------------------------------------------------------------

\* The tags of the model in the order of sorted(): capitals come first.
TagOrder == <<"Python", "docker", "python">>

\* sorted(tags) of a set of tags.
SortedTags(S) == SelectSeq(TagOrder, LAMBDA t : t \in S)

\* current_tags after update(add_tags) and -= set(remove_tags).
NewTags(read, add_tags, remove_tags) ==
  SortedTags((Range(read) \cup Range(add_tags)) \ Range(remove_tags))

\* update_conversation_tags up to its UPDATE: the SELECT of the tags and the
\* tag list computed from it.
TagsRead(p, cid, add_tags, remove_tags) ==
  /\ tpc[p] = "idle"
  /\ IF cid \in ConvIds
     THEN /\ tx' = [tx EXCEPT ![p] =
                      [IdleTx EXCEPT !.op = "tag", !.cid = cid, !.read = convTags[cid],
                                     !.add = add_tags, !.remove = remove_tags,
                                     !.tags = NewTags(convTags[cid], add_tags,
                                                      remove_tags)]]
          /\ tpc' = [tpc EXCEPT ![p] = "tags_write"]
     ELSE /\ tx' = [tx EXCEPT ![p] = [IdleTx EXCEPT !.op = "tag", !.cid = cid]]
          /\ tpc' = [tpc EXCEPT ![p] = "tags_missing"]
  /\ UNCHANGED <<cvars, convTags, passed, nonconv>>

\* `return {"error": "Conversation not found"}`
TagsNotFound(p) ==
  /\ tpc[p] = "tags_missing"
  /\ tx' = [tx EXCEPT ![p] = IdleTx]
  /\ tpc' = [tpc EXCEPT ![p] = "idle"]
  /\ UNCHANGED <<cvars, convTags, passed, nonconv>>

\* Mutation of TagsWrite: the tags are added to and removed from the tags
\* that are stored when the UPDATE runs.
TagsWriteOnCurrent(p) ==
  /\ tpc[p] = "tags_write"
  /\ convTags' = IF tx[p].cid \in ConvIds
                 THEN Put(convTags, tx[p].cid,
                          NewTags(convTags[tx[p].cid], tx[p].add, tx[p].remove))
                 ELSE convTags
  /\ tpc' = [tpc EXCEPT ![p] = "tags_return"]
  /\ UNCHANGED <<cvars, tx, passed, nonconv>>

\* UPDATE conversations SET tags = $1 WHERE id = $2, with the computed list.
TagsWrite(p) ==
  /\ tpc[p] = "tags_write"
  /\ convTags' = IF tx[p].cid \in ConvIds
                 THEN Put(convTags, tx[p].cid, tx[p].tags)
                 ELSE convTags
  /\ tpc' = [tpc EXCEPT ![p] = "tags_return"]
  /\ UNCHANGED <<cvars, tx, passed, nonconv>>

\* `return {"id": ..., "tags": new_tags}`
TagsReturn(p) ==
  /\ tpc[p] = "tags_return"
  /\ tx' = [tx EXCEPT ![p] = IdleTx]
  /\ tpc' = [tpc EXCEPT ![p] = "idle"]
  /\ UNCHANGED <<cvars, convTags, passed, nonconv>>

\* save_knowledge with its tags: `tags or []` is stored as it is passed.
SaveKnowledgeTags(category, content, tags) ==
  /\ SaveKnowledge(category, content)
  /\ knowTags' = Put(knowTags, nextKid, tags)
  /\ UNCHANGED <<hist, cvars, svars, fvars, rvars, convTags, passed, pvars>>

\* The tool tag_conversation: empty lists are passed on as None, which
\* update_conversation_tags treats as it treats an empty list.
TagConversation(p, cid, add_tags, remove_tags) ==
  TagsRead(p, cid, add_tags, remove_tags)

\* ------------------------------------------------------------------------
\* Two clients tagging the first conversation
\* ------------------------------------------------------------------------
\* Client P1 saves conversations without messages and adds the tag "docker"
\* to the first one; client P2 adds "Python" to it or removes "python" from it.

\* Tag lists passed to save_conversation.
TagLists == { <<"python">>, <<"python", "python">>, <<"python", "Python">> }

\* The add_tags and remove_tags of client P2.
TagEdits == { <<<<"Python">>, <<>>>>, <<<<>>, <<"python">>>> }

NextTagStore ==
  \/ \E tags \in TagLists :
       SaveConversationBegin(P1, "cursor", <<>>, <<>>, tags, <<>>)
  \/ SaveConversationCommit(P1)
  \/ TagConversation(P1, 1, <<"docker">>, <<>>)
  \/ \E e \in TagEdits : TagConversation(P2, 1, e[1], e[2])
  \/ \E p \in Procs : TagsNotFound(p)
  \/ \E p \in Procs : TagsWrite(p)
  \/ \E p \in Procs : TagsReturn(p)
  \/ DeleteConversation(1)

SpecTagStore == Init /\ [][NextTagStore]_vars

\* The step in which request p executes its UPDATE on a conversation that
\* exists.
TagsWriteStep(p) ==
  /\ tpc[p] = "tags_write"
  /\ tpc'[p] = "tags_return"
  /\ tx[p].cid \in ConvIds

\* C17: update_conversation_tags writes the list it computed from the tags
\* it read, whatever is stored when its UPDATE runs, so the later of two
\* concurrent writers overwrites what the earlier one stored.
C17_LastWriteWins ==
  [][\A p \in Procs :
       TagsWriteStep(p) =>
         convTags'[tx[p].cid] = NewTags(tx[p].read, tx[p].add, tx[p].remove)]_vars

\* Both calls read the same tag list, both have executed their UPDATE and
\* are about to return their tags, the stored tags are those computed by
\* one of them, and the tag "docker" added by the other is missing.
C17_Witness ==
  /\ tpc[P1] = "tags_return"
  /\ tpc[P2] = "tags_return"
  /\ tx[P1].cid = tx[P2].cid
  /\ tx[P1].read = tx[P2].read
  /\ tx[P1].cid \in ConvIds
  /\ convTags[tx[P1].cid] = tx[P2].tags
  /\ "docker" \in Range(tx[P1].add)
  /\ "docker" \in Range(tx[P1].tags)
  /\ "docker" \notin Range(convTags[tx[P1].cid])

\* The tag in lower case.
LowerTag(t) == IF t = "Python" THEN "python" ELSE t

\* No two entries of the list are equal up to letter case.
DistinctTags(tags) ==
  \A i, j \in 1..Len(tags) : LowerTag(tags[i]) = LowerTag(tags[j]) => i = j

\* C18: no stored conversation or knowledge item has a tag list with the
\* same tag twice or with two tags that differ only in letter case.
C18_TagsAreDistinct ==
  /\ \A c \in DOMAIN convTags : DistinctTags(convTags[c])
  /\ \A k \in DOMAIN knowTags : DistinctTags(knowTags[k])

\* ------------------------------------------------------------------------
\* update_knowledge
\* ------------------------------------------------------------------------
\* An optional argument is <<>> for None and <<v>> for the value v.

\* The variables that update_knowledge and save_knowledge do not touch.
nonknow == <<hist, cvars, svars, fvars, convTags, passed, pvars>>

KnowledgeIds == {k.id : k \in knowledge}

KnowledgeById(kid) == CHOOSE k \in knowledge : k.id = kid

\* new_category = category if category is not None else existing["category"]
NewCategory(category, new_content, existing) ==
  IF category /= <<>> THEN category[1] ELSE existing.category

\* db.update_knowledge up to its UPDATE: the SELECT of the row and the new
\* values computed from it and from the arguments.
UpdateKnowledgeRead(p, kid, content, category, tags) ==
  /\ tpc[p] = "idle"
  /\ IF kid \in KnowledgeIds
     THEN LET existing == KnowledgeById(kid)
              new_content == IF content /= <<>> THEN content[1] ELSE existing.content
          IN /\ tx' = [tx EXCEPT ![p] =
                         [IdleTx EXCEPT
                            !.op = "update", !.kid = kid, !.given = category,
                            !.fresh = content,
                            !.read = <<existing.category>>,
                            !.content = new_content,
                            !.category = NewCategory(category, new_content, existing),
                            !.tags = IF tags /= <<>> THEN tags[1] ELSE knowTags[kid]]]
             /\ tpc' = [tpc EXCEPT ![p] = "know_write"]
     ELSE /\ tx' = [tx EXCEPT ![p] = [IdleTx EXCEPT !.op = "update", !.kid = kid]]
          /\ tpc' = [tpc EXCEPT ![p] = "know_missing"]
  /\ UNCHANGED <<kvars, knowTags, nonknow>>

\* `return {"error": "Not found"}`
UpdateKnowledgeNotFound(p) ==
  /\ tpc[p] = "know_missing"
  /\ tx' = [tx EXCEPT ![p] = IdleTx]
  /\ tpc' = [tpc EXCEPT ![p] = "idle"]
  /\ UNCHANGED <<kvars, knowTags, nonknow>>

\* UPDATE knowledge SET content=$1, category=$2, tags=$3 WHERE id=$4
UpdateKnowledgeWrite(p) ==
  /\ tpc[p] = "know_write"
  /\ knowledge' = {IF k.id = tx[p].kid
                   THEN [k EXCEPT !.content = tx[p].content,
                                  !.category = tx[p].category]
                   ELSE k : k \in knowledge}
  /\ knowTags' = IF tx[p].kid \in KnowledgeIds
                 THEN Put(knowTags, tx[p].kid, tx[p].tags) ELSE knowTags
  /\ tpc' = [tpc EXCEPT ![p] = "know_return"]
  /\ UNCHANGED <<nextKid, pc, call, tx, nonknow>>

\* `return {"id": ..., "status": "updated", ...}`
UpdateKnowledgeReturn(p) ==
  /\ tpc[p] = "know_return"
  /\ tx' = [tx EXCEPT ![p] = IdleTx]
  /\ tpc' = [tpc EXCEPT ![p] = "idle"]
  /\ UNCHANGED <<kvars, knowTags, nonknow>>

\* category.lower().strip() in the tool.
NormalizeCategory(category) ==
  CASE category = "Preference " -> "preference"
    [] category = " " -> ""
    [] OTHER -> category

\* The tool update_knowledge: an empty content, category or tag list is
\* passed on as None.
UpdateKnowledgeTool(p, kid, content, category, tags) ==
  UpdateKnowledgeRead(p, kid,
                      IF content = <<>> THEN <<>> ELSE <<content>>,
                      IF NormalizeCategory(category) = "" THEN <<>>
                      ELSE <<NormalizeCategory(category)>>,
                      IF tags = <<>> THEN <<>> ELSE <<tags>>)

\* ------------------------------------------------------------------------
\* Two clients updating knowledge items
\* ------------------------------------------------------------------------
\* Client P1 sends new contents, client P2 sends new categories.

\* The content, category and tags arguments of the tool; the empty ones
\* stand for "keep the existing value".
UpdateContents == {<<>>, <<"prefer", "postgresql">>}

UpdateCategories == {"", " ", "Preference "}

NextUpdate ==
  \/ SaveKnowledgeTags("fact", <<"postgresql">>, <<"python">>)
  \/ \E kid \in 1..MaxItems, content \in UpdateContents :
       UpdateKnowledgeTool(P1, kid, content, "", <<>>)
  \/ \E kid \in 1..MaxItems, category \in UpdateCategories :
       UpdateKnowledgeTool(P2, kid, <<>>, category, <<>>)
  \/ \E p \in Procs : UpdateKnowledgeNotFound(p)
  \/ \E p \in Procs : UpdateKnowledgeWrite(p)
  \/ \E p \in Procs : UpdateKnowledgeReturn(p)

SpecUpdate == Init /\ [][NextUpdate]_vars

\* The step in which request p executes its UPDATE on a row that exists.
UpdateWriteStep(p) ==
  /\ tpc[p] = "know_write"
  /\ tpc'[p] = "know_return"
  /\ tx[p].kid \in KnowledgeIds

\* The category of item kid after the step.
CategoryAfter(kid) == (CHOOSE k \in knowledge' : k.id = kid).category

\* C20: update_knowledge never re-derives the category from the content.
\* The UPDATE of a call that supplies new content and no category leaves
\* the category the item has at that moment unchanged, also when the
\* classifier gives the new content another category, and the UPDATE of a
\* call that supplies a category sets the item's category to that value.
C20_CategoryKeptOrSet ==
  [][\A p \in Procs :
       UpdateWriteStep(p) =>
         /\ (tx[p].given = <<>> /\ tx[p].fresh /= <<>>) =>
              CategoryAfter(tx[p].kid) = KnowledgeById(tx[p].kid).category
         /\ tx[p].given /= <<>> =>
              CategoryAfter(tx[p].kid) = tx[p].given[1]]_vars

\* ------------------------------------------------------------------------
\* Identifiers
\* ------------------------------------------------------------------------
\* An identifier argument is a string: <<"uuid", n>> stands for the text of
\* the UUID of row n, any other pair for a text that is no UUID.

Uuid(n) == <<"uuid", n>>

Malformed == <<"not-a-uuid", 0>>

\* No identifier is echoed.
NoId == <<"", 0>>

\* uuid.UUID(text): <<n>>, or <<>> when it raises ValueError.
ParseUUID(text) == IF text[1] = "uuid" THEN <<text[2]>> ELSE <<>>

\* What a tool returns: the part of the JSON text that names the outcome,
\* the identifier that is echoed and the data.
Result(kind, id, data) == [kind |-> kind, id |-> id, data |-> data]

\* The variables of the requests that run step by step.
stepvars == <<pc, call, hist, svars, rvars, passed, pvars>>

\* ------------------------------------------------------------------------
\* get_related_knowledge
\* ------------------------------------------------------------------------

\* "lorem" stands for a word of 189 letters.
\* The word that is left of word w when the text is cut after n of its
\* characters (the model cuts no other word).
CutWord(w, n) == IF w = "postgresql" /\ n = 3 THEN "pos" ELSE w

\* text[:n] of a text whose words are joined by single blanks.
RECURSIVE Truncate(_, _)
Truncate(text, n) ==
  IF text = <<>> \/ n <= 0 THEN <<>>
  ELSE IF WordLen(Head(text)) <= n
       THEN <<Head(text)>> \o Truncate(Tail(text), n - WordLen(Head(text)) - 1)
       ELSE <<CutWord(Head(text), n)>>

RelatedQueryChars == 200

RelatedLimitCap == 50

\* ts_rank(to_tsvector(doc), plainto_tsquery(query)) of any document, on a
\* scale whose unit is 1e-20: 0 for an empty document or query; for a query of
\* one term a value that grows with the occurrences of the term; for a query
\* of several terms the floor 1e-20 unless two of the terms occur, and a
\* value that grows with the occurrences above it.
RelatedRank(doc, query) ==
  LET terms == PlainToTsQuery(query)
      lex == Lexemes(doc)
      hits == Cardinality({n \in 1..Len(lex) : lex[n] \in terms})
  IN IF terms = {} \/ lex = <<>> THEN 0
     ELSE IF Cardinality(terms) < 2 THEN 2 * hits
     ELSE IF Cardinality(terms \cap ToTsVector(doc)) < 2 THEN 1
     ELSE 1 + hits

\* tags && $3: the two arrays have an element in common.
TagsOverlap(a, b) == Range(a) \cap Range(b) /= {}

\* The rows of the SELECT before ORDER BY. Rows are inserted one per
\* transaction, so created_at grows with the identity.
RelatedCandidates(source, tags, kid) ==
  {[id |-> k.id, category |-> k.category, content |-> k.content,
    tags |-> knowTags[k.id], created_at |-> k.id,
    relevance |-> RelatedRank(k.content, Truncate(source, RelatedQueryChars))] :
     k \in {r \in knowledge :
              /\ r.id /= kid
              /\ \/ TsMatch(r.content, Truncate(source, RelatedQueryChars))
                 \/ TagsOverlap(knowTags[r.id], tags)}}

\* Mutation of OrderRelated: rows of equal rank come oldest first.
RECURSIVE OrderRelatedOldestFirst(_)
OrderRelatedOldestFirst(rows) ==
  IF rows = {} THEN <<>>
  ELSE LET first == CHOOSE x \in rows :
                      \A y \in rows \ {x} :
                        \/ x.relevance > y.relevance
                        \/ x.relevance = y.relevance /\ x.created_at < y.created_at
       IN <<first>> \o OrderRelatedOldestFirst(rows \ {first})

\* ORDER BY rank DESC, created_at DESC
RECURSIVE OrderRelated(_)
OrderRelated(rows) ==
  IF rows = {} THEN <<>>
  ELSE LET first == CHOOSE x \in rows :
                      \A y \in rows \ {x} :
                        \/ x.relevance > y.relevance
                        \/ x.relevance = y.relevance /\ x.created_at > y.created_at
       IN <<first>> \o OrderRelated(rows \ {first})

\* Mutation of get_related_knowledge: the query is built from the whole
\* content of the anchor.
get_related_knowledge_whole_content(knowledge_id, limit) ==
  IF ParseUUID(knowledge_id) = <<>> THEN <<>>
  ELSE LET kid == ParseUUID(knowledge_id)[1]
       IN IF kid \notin {k.id : k \in knowledge} THEN <<>>
          ELSE LET source == CHOOSE k \in knowledge : k.id = kid
               IN Limit(OrderRelated(
                    {[id |-> k.id, category |-> k.category, content |-> k.content,
                      tags |-> knowTags[k.id], created_at |-> k.id,
                      relevance |-> RelatedRank(k.content, source.content)] :
                       k \in {r \in knowledge :
                                /\ r.id /= kid
                                /\ \/ TsMatch(r.content, source.content)
                                   \/ TagsOverlap(knowTags[r.id], knowTags[kid])}}),
                    limit)

\* db.get_related_knowledge: the list it returns.
get_related_knowledge(knowledge_id, limit) ==
  IF ParseUUID(knowledge_id) = <<>> THEN <<>>
  ELSE LET kid == ParseUUID(knowledge_id)[1]
       IN IF kid \notin {k.id : k \in knowledge} THEN <<>>
          ELSE LET source == CHOOSE k \in knowledge : k.id = kid
               IN Limit(OrderRelated(
                          RelatedCandidates(source.content, knowTags[kid], kid)),
                        limit)

\* The tool get_related_knowledge.
GetRelatedKnowledge(knowledge_id, limit) ==
  LET results == get_related_knowledge(knowledge_id, Min(limit, RelatedLimitCap))
  IN /\ arg' = [op |-> "get_related_knowledge", id |-> knowledge_id, opt |-> limit]
     /\ ret' = <<IF results = <<>>
                 THEN Result("message: No related knowledge found.", NoId, <<>>)
                 ELSE Result("results", NoId, results)>>
     /\ UNCHANGED <<kvars, cvars, gvars, stepvars>>

\* ------------------------------------------------------------------------
\* A client saving knowledge and asking for related items
\* ------------------------------------------------------------------------

\* Content and tags of the items. The content that starts with "lorem" is
\* longer than 200 characters, its first 200 characters are
\* "lorem prefer pos".
RelatedItems ==
  { << <<"the">>, <<"python">> >>,
    << <<"docker">>, <<"python">> >>,
    << <<"prefer", "postgresql">>, <<"python">> >>,
    << <<"lorem", "prefer", "postgresql">>, <<"python">> >>,
    << <<"lorem", "prefer", "postgresql">>, <<"docker">> >> }

RelatedLimits == {1, 10}

NextRelated ==
  \/ \E item \in RelatedItems : SaveKnowledgeTags("fact", item[1], item[2])
  \/ \E n \in 1..MaxItems, limit \in RelatedLimits :
       GetRelatedKnowledge(Uuid(n), limit)

SpecRelated == Init /\ [][NextRelated]_vars

\* A call of the tool get_related_knowledge returns.
RelatedStep ==
  /\ <<arg, ret>>' /= <<arg, ret>>
  /\ arg'.op = "get_related_knowledge"

\* The content of the anchor of the call that returns, <<>> if it is not stored.
AnchorContent ==
  IF \E k \in knowledge : k.id = arg'.id[2]
  THEN (CHOOSE k \in knowledge : k.id = arg'.id[2]).content
  ELSE <<>>

AnchorTags ==
  IF arg'.id[2] \in DOMAIN knowTags THEN knowTags[arg'.id[2]] ELSE <<>>

\* The query of the call that returns: the first 200 characters of the
\* content of the anchor.
AnchorQuery == Truncate(AnchorContent, 200)

\* The other items whose content matches the query or that share a tag with
\* the anchor.
RelatedTo ==
  {k \in knowledge :
     /\ k.id /= arg'.id[2]
     /\ \/ /\ PlainToTsQuery(AnchorQuery) /= {}
           /\ PlainToTsQuery(AnchorQuery) \subseteq ToTsVector(k.content)
        \/ Range(knowTags[k.id]) \cap Range(AnchorTags) /= {}}

\* The rows a call returned.
RowsOf(r) == r[1].data

\* C23: get_related_knowledge never returns the anchor, returns no item
\* twice, and what it returns are the other items whose content matches the
\* query built from the first 200 characters of the anchor's content or
\* whose tags intersect the anchor's tags: all of them, or as many as the
\* limit allows.
C23_RelatedAreTheOthers ==
  [][RelatedStep =>
       LET rows == RowsOf(ret')
           ids == {rows[i].id : i \in 1..Len(rows)}
       IN /\ arg'.id[2] \notin ids
          /\ Cardinality(ids) = Len(rows)
          /\ ids \subseteq {k.id : k \in RelatedTo}
          /\ Len(rows) = Min(arg'.opt, Cardinality(RelatedTo))]_vars

\* The anchor is longer than 200 characters and has a twin with the same
\* content and other tags: the twin is not returned, because the query ends
\* with the cut word "pos"; an item that shares the anchor's tag is returned.
C23_Witness ==
  /\ arg /= NoArg
  /\ arg.op = "get_related_knowledge"
  /\ \E a, b, c \in knowledge :
       /\ a.id = arg.id[2]
       /\ a.content = <<"lorem", "prefer", "postgresql">>
       /\ b.id /= a.id
       /\ b.content = a.content
       /\ knowTags[b.id] /= knowTags[a.id]
       /\ c.content = <<"docker">>
       /\ knowTags[c.id] = knowTags[a.id]
       /\ {RowsOf(ret)[i].id : i \in 1..Len(RowsOf(ret))} = {c.id}

\* The row is in the result through its tags only and its content has no
\* lexeme in common with the query.
TagOnly(row) == ToTsVector(row.content) \cap PlainToTsQuery(AnchorQuery) = {}

\* The rows are in the order of relevance, then of creation time, both
\* descending.
RelatedOrdered(rows) ==
  \A i, j \in 1..Len(rows) :
    i < j => \/ rows[i].relevance > rows[j].relevance
             \/ /\ rows[i].relevance = rows[j].relevance
                /\ rows[i].created_at >= rows[j].created_at

\* C24 as stated: the results are ordered by relevance and then by creation
\* time, both descending, every result has a numeric relevance, and an item
\* that qualifies through shared tags only, with no text overlap, has
\* relevance 0.
C24_TagOnlyIsZero ==
  [][RelatedStep =>
       LET rows == RowsOf(ret')
       IN /\ RelatedOrdered(rows)
          /\ \A i \in 1..Len(rows) :
               /\ rows[i].relevance \in Nat
               /\ TagOnly(rows[i]) => rows[i].relevance = 0]_vars

\* C24 amended: as C24, but the relevance of an item with no text overlap is
\* 0 only when the query has fewer than two terms or the item has no lexeme,
\* and otherwise the floor 1e-20 of ts_rank (1 on the model's scale), which
\* is lower than the relevance of every item whose content matches.
C24_TagOnlyIsLowest ==
  [][RelatedStep =>
       LET rows == RowsOf(ret')
           terms == PlainToTsQuery(AnchorQuery)
       IN /\ RelatedOrdered(rows)
          /\ \A i \in 1..Len(rows) :
               /\ rows[i].relevance \in Nat
               /\ TagOnly(rows[i]) =>
                    /\ rows[i].relevance =
                         IF Cardinality(terms) < 2 \/ ToTsVector(rows[i].content) = {}
                         THEN 0 ELSE 1
                    /\ \A j \in 1..Len(rows) :
                         (terms /= {} /\ terms \subseteq ToTsVector(rows[j].content))
                           => /\ rows[j].relevance > rows[i].relevance
                              /\ j < i]_vars

\* A result of two rows: an item whose content matches the query of two
\* terms, and after it an item that shares a tag and no lexeme with the
\* anchor and has the floor relevance.
C24_Witness ==
  /\ arg /= NoArg
  /\ arg.op = "get_related_knowledge"
  /\ \E a \in knowledge :
       /\ a.id = arg.id[2]
       /\ a.content = <<"prefer", "postgresql">>
  /\ Len(RowsOf(ret)) = 2
  /\ RowsOf(ret)[1].content = <<"prefer", "postgresql">>
  /\ RowsOf(ret)[1].relevance > 1
  /\ RowsOf(ret)[2].content = <<"docker">>
  /\ RowsOf(ret)[2].relevance = 1
  /\ \A i \in 1..2 : \E k \in knowledge :
       /\ k.id = RowsOf(ret)[i].id
       /\ k.content = RowsOf(ret)[i].content

\* ------------------------------------------------------------------------
\* The operations that take an identifier, called by a lone client
\* ------------------------------------------------------------------------
\* The statements of a call run without interleaving. Every call leaves its
\* arguments in arg and what it returned in ret.

StoredKnowledgeIds == {k.id : k \in knowledge}

\* db.delete_conversation / db.delete_knowledge_entry: result == "DELETE 1".
DeleteSucceeds(memory_id, ids) ==
  /\ ParseUUID(memory_id) /= <<>>
  /\ ParseUUID(memory_id)[1] \in ids

\* The tool delete_memory.
DeleteMemory(memory_id, memory_type) ==
  /\ arg' = [op |-> "delete_memory", id |-> memory_id, opt |-> memory_type]
  /\ IF memory_type = "conversation"
     THEN LET success == DeleteSucceeds(memory_id, ConvIds)
          IN /\ conversations' =
                  {c \in conversations : ~(success /\ c.id = memory_id[2])}
             /\ messages' =
                  {m \in messages : ~(success /\ m.conversation_id = memory_id[2])}
             /\ convTags' = IF success THEN Drop(convTags, memory_id[2]) ELSE convTags
             /\ ret' = <<Result(IF success THEN "status: deleted" ELSE "status: not_found",
                                memory_id, <<>>)>>
             /\ UNCHANGED <<knowledge, knowTags>>
     ELSE IF memory_type = "knowledge"
     THEN LET success == DeleteSucceeds(memory_id, StoredKnowledgeIds)
          IN /\ knowledge' = {k \in knowledge : ~(success /\ k.id = memory_id[2])}
             /\ knowTags' = IF success THEN Drop(knowTags, memory_id[2]) ELSE knowTags
             /\ ret' = <<Result(IF success THEN "status: deleted" ELSE "status: not_found",
                                memory_id, <<>>)>>
             /\ UNCHANGED <<conversations, messages, convTags>>
     ELSE /\ ret' = <<Result("error: Unknown memory_type", NoId, <<>>)>>
          /\ UNCHANGED <<knowledge, knowTags, conversations, messages, convTags>>
  /\ UNCHANGED <<nextKid, nextCid, nextMid, now, stepvars>>

\* The tool get_conversation_by_id; the data are the row and its messages.
GetConversationById(conversation_id) ==
  /\ arg' = [op |-> "get_conversation_by_id", id |-> conversation_id, opt |-> ""]
  /\ ret' = <<IF /\ ParseUUID(conversation_id) /= <<>>
                 /\ ParseUUID(conversation_id)[1] \in ConvIds
              THEN Result("conversation", NoId,
                          <<CHOOSE c \in conversations : c.id = conversation_id[2],
                            {m \in messages : m.conversation_id = conversation_id[2]}>>)
              ELSE Result("error: Conversation not found", conversation_id, <<>>)>>
  /\ UNCHANGED <<kvars, cvars, gvars, stepvars>>

\* The tool update_knowledge.
UpdateKnowledgeAlone(knowledge_id, content, category, tags) ==
  /\ arg' = [op |-> "update_knowledge", id |-> knowledge_id, opt |-> ""]
  /\ IF ParseUUID(knowledge_id) = <<>>
     THEN /\ ret' = <<Result("error: Invalid UUID", NoId, <<>>)>>
          /\ UNCHANGED <<knowledge, knowTags>>
     ELSE IF ParseUUID(knowledge_id)[1] \notin StoredKnowledgeIds
     THEN /\ ret' = <<Result("error: Not found", NoId, <<>>)>>
          /\ UNCHANGED <<knowledge, knowTags>>
     ELSE LET kid == ParseUUID(knowledge_id)[1]
              existing == CHOOSE k \in knowledge : k.id = kid
              new_content == IF content /= <<>> THEN content ELSE existing.content
              new_category ==
                NewCategory(IF NormalizeCategory(category) = "" THEN <<>>
                            ELSE <<NormalizeCategory(category)>>,
                            new_content, existing)
          IN /\ knowledge' = (knowledge \ {existing}) \cup
                  {[existing EXCEPT !.content = new_content,
                                    !.category = new_category]}
             /\ knowTags' = IF tags /= <<>> THEN Put(knowTags, kid, tags) ELSE knowTags
             /\ ret' = <<Result("status: updated", knowledge_id,
                                <<new_content, new_category>>)>>
  /\ UNCHANGED <<nextKid, cvars, convTags, stepvars>>

\* The tool add_message_to_conversation.
AddMessageToConversation(conversation_id, msgs) ==
  /\ arg' = [op |-> "add_message_to_conversation", id |-> conversation_id, opt |-> ""]
  /\ IF ParseUUID(conversation_id) = <<>>
     THEN /\ ret' = <<Result("error: Invalid UUID", NoId, <<>>)>>
          /\ UNCHANGED <<messages, nextMid, now>>
     ELSE IF ParseUUID(conversation_id)[1] \notin ConvIds
     THEN /\ ret' = <<Result("error: Conversation not found", NoId, <<>>)>>
          /\ UNCHANGED <<messages, nextMid, now>>
     ELSE /\ nextMid + Len(msgs) - 1 <= MaxMessages
          /\ now' = now + 1
          /\ messages' = messages \cup
               {[id |-> nextMid + n - 1, conversation_id |-> conversation_id[2],
                 content |-> msgs[n], created_at |-> now'] : n \in 1..Len(msgs)}
          /\ nextMid' = nextMid + Len(msgs)
          /\ ret' = <<Result("added", conversation_id,
                             <<Len(msgs),
                               Cardinality({m \in messages' :
                                              m.conversation_id = conversation_id[2]})>>)>>
  /\ UNCHANGED <<kvars, conversations, nextCid, gvars, stepvars>>

\* The tool tag_conversation.
TagConversationAlone(conversation_id, add_tags, remove_tags) ==
  /\ arg' = [op |-> "tag_conversation", id |-> conversation_id, opt |-> ""]
  /\ IF ParseUUID(conversation_id) = <<>>
     THEN /\ ret' = <<Result("error: Invalid UUID", NoId, <<>>)>>
          /\ UNCHANGED convTags
     ELSE IF ParseUUID(conversation_id)[1] \notin ConvIds
     THEN /\ ret' = <<Result("error: Conversation not found", NoId, <<>>)>>
          /\ UNCHANGED convTags
     ELSE LET new_tags == NewTags(convTags[conversation_id[2]], add_tags, remove_tags)
          IN /\ convTags' = Put(convTags, conversation_id[2], new_tags)
             /\ ret' = <<Result("tags", conversation_id, new_tags)>>
  /\ UNCHANGED <<kvars, cvars, knowTags, stepvars>>

\* db.save_knowledge with a source_conversation_id (a column the model does
\* not keep): a text that is no UUID is dropped and the row is saved without
\* the reference; the UUID of no conversation violates the foreign key and
\* the call raises.
SaveKnowledgeFrom(category, content, tags, source_conversation_id) ==
  /\ arg' = [op |-> "save_knowledge", id |-> source_conversation_id, opt |-> ""]
  /\ IF /\ ParseUUID(source_conversation_id) /= <<>>
        /\ ParseUUID(source_conversation_id)[1] \notin ConvIds
     THEN /\ ret' = <<Result("raised: ForeignKeyViolationError", NoId, <<>>)>>
          /\ UNCHANGED <<knowledge, nextKid, knowTags>>
     ELSE /\ nextKid <= MaxItems
          /\ knowledge' = knowledge \cup
               {[id |-> nextKid, category |-> category, content |-> content]}
          /\ nextKid' = nextKid + 1
          /\ knowTags' = Put(knowTags, nextKid, tags)
          /\ ret' = <<Result("saved", Uuid(nextKid), <<category, content>>)>>
  /\ UNCHANGED <<pc, call, cvars, convTags, stepvars>>

\* save_conversation without messages.
SaveConversationTagged(platform, tags) ==
  /\ SaveConversation(platform, <<>>, <<>>, <<>>)
  /\ convTags' = Put(convTags, nextCid, tags)
  /\ UNCHANGED <<kvars, knowTags, fvars, stepvars>>

\* The identifiers the client passes: a text that is no UUID, the UUID of no
\* row (identities start at 1) and the UUID of the first row.
IdArgs == {Malformed, Uuid(0), Uuid(1)}

MemoryTypes == {"conversation", "knowledge", "message"}

NextIdent ==
  \/ SaveConversationTagged("cursor", <<"python">>)
  \/ \E id \in IdArgs :
       SaveKnowledgeFrom("fact", <<"postgresql">>, <<"python">>, id)
  \/ \E id \in IdArgs, type \in MemoryTypes : DeleteMemory(id, type)
  \/ \E id \in IdArgs : GetConversationById(id)
  \/ \E id \in IdArgs :
       UpdateKnowledgeAlone(id, <<"prefer", "postgresql">>, "", <<>>)
  \/ \E id \in IdArgs : AddMessageToConversation(id, << <<"prefer">> >>)
  \/ \E id \in IdArgs : TagConversationAlone(id, <<"docker">>, <<>>)
  \/ \E id \in IdArgs : GetRelatedKnowledge(id, 10)

SpecIdent == Init /\ [][NextIdent]_vars

\* The operations of C21.
IdOps ==
  {"delete_memory", "get_conversation_by_id", "update_knowledge",
   "add_message_to_conversation", "tag_conversation", "get_related_knowledge"}

\* The identities of the rows that call a is about.
TargetIds(a) ==
  IF \/ a.op \in {"get_conversation_by_id", "add_message_to_conversation",
                  "tag_conversation"}
     \/ a.op = "delete_memory" /\ a.opt = "conversation"
  THEN ConvIds
  ELSE StoredKnowledgeIds

\* Call a has a well-formed identifier that names no stored row.
NamesNoRow(a) ==
  /\ ParseUUID(a.id) /= <<>>
  /\ ParseUUID(a.id)[1] \notin TargetIds(a)

\* C21: when an operation that takes an identifier is called with a
\* malformed identifier and then with a well-formed identifier that names
\* no stored record, the second result is of another kind than the first:
\* not found is distinguishable from malformed.
C21_NotFoundIsDistinct ==
  [][(/\ arg /= NoArg
      /\ arg.op \in IdOps
      /\ arg'.op = arg.op
      /\ arg'.opt = arg.opt
      /\ arg.opt \in {"", "conversation", "knowledge"}
      /\ ParseUUID(arg.id) = <<>>
      /\ NamesNoRow(arg'))
       => ret'[1].kind /= ret[1].kind]_vars

\* The rows of all tables.
Store == <<knowledge, knowTags, conversations, convTags, messages>>

\* A call returns.
CallStep == <<arg, ret>>' /= <<arg, ret>>

\* C22: a call with a malformed identifier returns a result, raises nothing
\* and leaves the store unchanged, and delete_memory with an unknown
\* memory_type returns an error result and deletes nothing.
C22_MalformedIsAnError ==
  [][CallStep =>
       /\ ParseUUID(arg'.id) = <<>> =>
            /\ ret'[1].kind /= "raised: ForeignKeyViolationError"
            /\ Store' = Store
       /\ (arg'.op = "delete_memory" /\ arg'.opt \notin {"conversation", "knowledge"}) =>
            /\ ret'[1].kind = "error: Unknown memory_type"
            /\ Store' = Store]_vars

\* ------------------------------------------------------------------------
\* Projects: save_project_context
\* ------------------------------------------------------------------------
\* A row of table projects has a name, a tech_stack and tags (arrays) and a
\* context: a JSON object, kept as the set of its <<key, value>> pairs.

\* The variables that save_project_context leaves alone.
nonproj == <<kvars, hist, cvars, svars, rvars, gvars, passed, pool>>

\* CASE WHEN EXCLUDED.tech_stack = '{}' THEN projects.tech_stack
\* ELSE EXCLUDED.tech_stack END
MergeTechStack(old, new) == IF new = <<>> THEN old ELSE new

\* Mutation of MergeContext: the stored value of a key is kept.
MergeContextOldWins(old, new) ==
  old \cup {e \in new : \A o \in old : o[1] /= e[1]}

\* projects.context || EXCLUDED.context
MergeContext(old, new) ==
  new \cup {e \in old : \A n \in new : n[1] /= e[1]}

\* ARRAY(SELECT DISTINCT unnest(projects.tags || EXCLUDED.tags)): the
\* distinct tags in an order that SQL leaves open.
MergeTags(old, new) == Perms(Range(old) \cup Range(new))

\* db.save_project_context: INSERT ... ON CONFLICT (name) DO UPDATE.
SaveProjectContext(name, tech_stack, context, tags) ==
  /\ arg' = [op |-> "save_project_context", name |-> name,
             tech_stack |-> tech_stack, context |-> context, tags |-> tags]
  /\ IF \E r \in projects : r.name = name
     THEN LET old == CHOOSE r \in projects : r.name = name
          IN \E merged \in MergeTags(old.tags, tags) :
               projects' = (projects \ {old}) \cup
                 {[name |-> name,
                   tech_stack |-> MergeTechStack(old.tech_stack, tech_stack),
                   context |-> MergeContext(old.context, context),
                   tags |-> merged]}
     ELSE projects' = projects \cup
            {[name |-> name, tech_stack |-> tech_stack, context |-> context,
              tags |-> tags]}
  /\ ret' = <<Result("saved", NoId, name)>>
  /\ UNCHANGED nonproj

\* The arguments of the calls for project "mcp"; project "api" is saved
\* with one tech stack and nothing else.
TechStacks == { <<>>, <<"python">>, <<"docker">> }

Contexts ==
  { {}, {<<"db", "postgresql">>}, {<<"db", "sqlite">>, <<"port", "8080">>} }

ProjectTags == { <<>>, <<"python">>, <<"docker", "python">>, <<"python", "python">> }

NextProjects ==
  \/ \E tech_stack \in TechStacks, context \in Contexts, tags \in ProjectTags :
       SaveProjectContext("mcp", tech_stack, context, tags)
  \/ SaveProjectContext("api", <<"docker">>, {}, <<>>)

SpecProjects == Init /\ [][NextProjects]_vars

\* The stored project of the call that returns, before and after the call.
ProjectBefore == CHOOSE r \in projects : r.name = arg'.name

ProjectAfter == CHOOSE r \in projects' : r.name = arg'.name

\* C25: after a save_project_context call there is one project per name,
\* and a call for an existing name leaves as tags the union of the old and
\* the new tags without repeats, replaces the tech stack only by a
\* non-empty one, and merges the context key by key, the new values winning.
C25_UpsertMerges ==
  [][(<<arg, ret, projects>>' /= <<arg, ret, projects>>) =>
       /\ \A a, b \in projects' : a.name = b.name => a = b
       /\ \E r \in projects' : r.name = arg'.name
       /\ (\E r \in projects : r.name = arg'.name) =>
            /\ Range(ProjectAfter.tags) =
                 Range(ProjectBefore.tags) \cup Range(arg'.tags)
            /\ Cardinality(Range(ProjectAfter.tags)) = Len(ProjectAfter.tags)
            /\ ProjectAfter.tech_stack =
                 IF arg'.tech_stack /= <<>> THEN arg'.tech_stack
                 ELSE ProjectBefore.tech_stack
            /\ arg'.context \subseteq ProjectAfter.context
            /\ \A e \in ProjectAfter.context :
                 \/ e \in arg'.context
                 \/ /\ e \in ProjectBefore.context
                    /\ \A n \in arg'.context : n[1] /= e[1]
            /\ \A e \in ProjectBefore.context :
                 \E f \in ProjectAfter.context : f[1] = e[1]]_vars

\* A call for an existing project with an empty tech stack, a new value for
\* key "db" and more tags: the tech stack is the old one, "db" has the new
\* value and the tags are the union.
C25_Witness ==
  /\ arg /= NoArg
  /\ arg.op = "save_project_context"
  /\ arg.tech_stack = <<>>
  /\ arg.context = {<<"db", "sqlite">>, <<"port", "8080">>}
  /\ arg.tags = <<"docker", "python">>
  /\ \E r \in projects :
       /\ r.name = arg.name
       /\ r.tech_stack = <<"python">>
       /\ r.context = arg.context
       /\ Range(r.tags) = {"docker", "python"}
       /\ Len(r.tags) = 2

\* ------------------------------------------------------------------------
\* A client extracting from texts that repeat a statement
\* ------------------------------------------------------------------------
\* Client P1 extracts; another client saves the item ("fact", "postgresql").

\* The statements of the texts: those of Statements and one of stop words
\* only, "the the the", which has 11 characters.
RepeatStatements == Statements \cup { <<"the", "the", "the">> }

RepeatLists == UNION { [1..n -> RepeatStatements] : n \in 0..MaxStatements }

NextRepeat ==
  \/ \E s \in RepeatLists :
       ExtractAndSavePreferences(P1, s) /\ UNCHANGED <<hist, cvars, svars, xvars>>
  \/ SelectExisting(P1) /\ UNCHANGED <<hist, cvars, svars, xvars>>
  \/ InsertKnowledge(P1) /\ UNCHANGED <<hist, cvars, svars, xvars>>
  \/ Return(P1) /\ UNCHANGED <<hist, cvars, svars, xvars>>
  \/ SaveKnowledge("fact", <<"postgresql">>) /\ UNCHANGED <<hist, cvars, svars, xvars>>

SpecRepeat == Init /\ [][NextRepeat]_vars

\* How often x occurs in sequence s.
Count(s, x) == Cardinality({n \in 1..Len(s) : s[n] = x})

\* The content of the stored item with identity id.
ContentOf(id) == (CHOOSE k \in knowledge : k.id = id).content

\* The contents of the items whose identities are in the sequence ids.
ContentsOf(ids) == [n \in 1..Len(ids) |-> ContentOf(ids[n])]

\* The statements of the call of request p.
StatementsOf(p) == [n \in 1..Len(call[p].items) |-> call[p].items[n].content]

\* The report of the call of request p adds up, and every statement is in
\* saved_entries or in skipped_entries as often as it was extracted.
ReportAddsUp(p) ==
  /\ Report(p).total_extracted = Report(p).newly_saved + Report(p).duplicates_skipped
  /\ \A x \in Range(StatementsOf(p)) :
       Count(StatementsOf(p), x) =
         Count(ContentsOf(call[p].saved), x) + Count(call[p].skipped, x)

\* C27: when an extract_and_save_preferences call returns, total_extracted =
\* newly_saved + duplicates_skipped and every extracted statement is
\* reported in exactly one of saved_entries and skipped_entries; the saved
\* entries grow by one with every item the call inserts and only then, so
\* newly_saved is the number of items the call inserted.
C27_ReportAddsUp ==
  [][/\ (pc'[P1] = "return" /\ call'[P1].op = "extract") => ReportAddsUp(P1)'
     /\ (call[P1].op = "extract" /\ call'[P1].op = "extract") =>
          IF pc[P1] = "insert" /\ pc'[P1] /= "insert"
          THEN /\ knowledge' \ knowledge =
                    {[id |-> nextKid, category |-> Current(P1).category,
                      content |-> Current(P1).content]}
               /\ call'[P1].saved = Append(call[P1].saved, nextKid)
          ELSE call'[P1].saved = call[P1].saved]_vars

\* A call over two statements returns: the first was saved, the second
\* was skipped as a duplicate of the other client's item.
C27_Witness ==
  /\ pc[P1] = "return"
  /\ call[P1].op = "extract"
  /\ Len(call[P1].items) = 2
  /\ Len(call[P1].saved) = 1
  /\ ContentOf(call[P1].saved[1]) = StatementsOf(P1)[1]
  /\ call[P1].skipped = <<StatementsOf(P1)[2]>>
  /\ StatementsOf(P1)[2] = <<"postgresql">>

\* C28: a call over a text in which a statement occurs more than once
\* saves the statement at most once: no two of the items it saved have the
\* same content.
C28_RepeatedIsSavedOnce ==
  \A i, j \in 1..Len(call[P1].saved) :
    (call[P1].op = "extract" /\ i /= j)
      => ContentOf(call[P1].saved[i]) /= ContentOf(call[P1].saved[j])

\* ------------------------------------------------------------------------
\* import_memories
\* ------------------------------------------------------------------------
\* The whole import runs in one transaction, `async with conn.transaction()`,
\* and every record in a try block of its own.  uuid.UUID raises before the
\* statement is sent, which leaves the transaction as it is.  A statement
\* that the server rejects aborts the transaction: every later statement
\* of the transaction is rejected too, and the COMMIT at the end of the
\* block rolls back.
\* The backups of the model have no code_snippets and no projects.

\* The tables and the counts while the records are processed.
ImportStart ==
  [conversations |-> conversations, messages |-> messages, knowledge |-> knowledge,
   convTags |-> convTags, knowTags |-> knowTags, aborted |-> FALSE,
   counts |-> [conversations |-> 0, messages |-> 0, knowledge |-> 0]]

\* One record of data["conversations"]:
\* INSERT INTO conversations ... ON CONFLICT (id) DO NOTHING.
ImportConversation(st, conv) ==
  LET id == ParseUUID(conv.id)
      counted == [st EXCEPT !.counts.conversations = @ + 1]
  IN IF id = <<>> \/ st.aborted THEN st
     ELSE IF \E c \in st.conversations : c.id = id[1] THEN counted
     ELSE [counted EXCEPT
             !.conversations = @ \cup
               {[id |-> id[1], platform |-> conv.platform, title |-> <<>>,
                 summary |-> <<>>, created_at |-> conv.created_at]},
             !.convTags = Put(@, id[1], <<>>)]

\* One record of data["messages"]: the row refers to its conversation, and
\* the server rejects a row that refers to no conversation.
ImportMessage(st, msg) ==
  LET id == ParseUUID(msg.id)
      cid == ParseUUID(msg.conversation_id)
      counted == [st EXCEPT !.counts.messages = @ + 1]
  IN IF id = <<>> \/ cid = <<>> \/ st.aborted THEN st
     ELSE IF \E m \in st.messages : m.id = id[1] THEN counted
     ELSE IF \A c \in st.conversations : c.id /= cid[1]
     THEN [st EXCEPT !.aborted = TRUE]
     ELSE [counted EXCEPT
             !.messages = @ \cup
               {[id |-> id[1], conversation_id |-> cid[1], content |-> msg.content,
                 created_at |-> msg.created_at]}]

\* One record of data["knowledge"]; source_conversation_id may be absent.
ImportKnowledge(st, k) ==
  LET id == ParseUUID(k.id)
      given == k.source_conversation_id /= NoId
      cid == ParseUUID(k.source_conversation_id)
      counted == [st EXCEPT !.counts.knowledge = @ + 1]
  IN IF (given /\ cid = <<>>) \/ id = <<>> \/ st.aborted THEN st
     ELSE IF \E r \in st.knowledge : r.id = id[1] THEN counted
     ELSE IF given /\ \A c \in st.conversations : c.id /= cid[1]
     THEN [st EXCEPT !.aborted = TRUE]
     ELSE [counted EXCEPT
             !.knowledge = @ \cup
               {[id |-> id[1], category |-> k.category, content |-> k.content]},
             !.knowTags = Put(@, id[1], <<>>)]

\* The three loops of import_memories, from record n of each list on.
RECURSIVE ImportConversations(_, _, _)
ImportConversations(st, recs, n) ==
  IF n > Len(recs) THEN st
  ELSE ImportConversations(ImportConversation(st, recs[n]), recs, n + 1)

RECURSIVE ImportMessages(_, _, _)
ImportMessages(st, recs, n) ==
  IF n > Len(recs) THEN st
  ELSE ImportMessages(ImportMessage(st, recs[n]), recs, n + 1)

RECURSIVE ImportKnowledgeItems(_, _, _)
ImportKnowledgeItems(st, recs, n) ==
  IF n > Len(recs) THEN st
  ELSE ImportKnowledgeItems(ImportKnowledge(st, recs[n]), recs, n + 1)

\* db.import_memories(data) and the tool around it.
ImportMemories(data) ==
  LET st == ImportKnowledgeItems(
              ImportMessages(
                ImportConversations(ImportStart, data.conversations, 1),
                data.messages, 1),
              data.knowledge, 1)
  IN /\ arg' = [op |-> "import_memories", data |-> data]
     /\ ret' = <<Result("imported", NoId, st.counts)>>
     /\ IF st.aborted
        THEN UNCHANGED <<conversations, messages, knowledge, convTags, knowTags>>
        ELSE /\ conversations' = st.conversations
             /\ messages' = st.messages
             /\ knowledge' = st.knowledge
             /\ convTags' = st.convTags
             /\ knowTags' = st.knowTags
     /\ UNCHANGED <<nextKid, nextCid, nextMid, now, pc, call, stepvars>>

\* The records of the backups.  Identities 11 and 12 are those of another
\* store; identity 1 is that of the first row of this store.
ImportedConversations ==
  { <<>>,
    << [id |-> Uuid(11), platform |-> "cursor", created_at |-> 0] >>,
    << [id |-> Malformed, platform |-> "cursor", created_at |-> 0],
       [id |-> Uuid(11), platform |-> "cursor", created_at |-> 0] >>,
    << [id |-> Uuid(1), platform |-> "cursor", created_at |-> 0] >> }

ImportedMessages ==
  { <<>>,
    << [id |-> Uuid(11), conversation_id |-> Uuid(11), content |-> <<"prefer">>,
        created_at |-> 0] >>,
    << [id |-> Uuid(11), conversation_id |-> Malformed, content |-> <<"prefer">>,
        created_at |-> 0],
       [id |-> Uuid(12), conversation_id |-> Uuid(11), content |-> <<"prefer">>,
        created_at |-> 0] >> }

ImportedKnowledge ==
  { <<>>,
    << [id |-> Uuid(11), category |-> "fact", content |-> <<"postgresql">>,
        source_conversation_id |-> NoId] >>,
    << [id |-> Uuid(11), category |-> "fact", content |-> <<"postgresql">>,
        source_conversation_id |-> Uuid(11)],
       [id |-> Uuid(12), category |-> "fact", content |-> <<"docker">>,
        source_conversation_id |-> NoId] >> }

Backups ==
  [conversations : ImportedConversations, messages : ImportedMessages,
   knowledge : ImportedKnowledge]

NextImport ==
  \/ SaveConversationTagged("cursor", <<"python">>)
  \/ SaveKnowledgeFrom("fact", <<"postgresql">>, <<"python">>, NoId)
  \/ \E id \in {Uuid(1), Uuid(11)} : DeleteMemory(id, "conversation")
  \/ \E data \in Backups : ImportMemories(data)

SpecImport == Init /\ [][NextImport]_vars

\* The records of sequence recs whose identifiers (fields ids) are all
\* well-formed UUIDs.
WellFormed(recs, ids) ==
  {n \in 1..Len(recs) : \A f \in ids : recs[n][f] = NoId \/ ParseUUID(recs[n][f]) /= <<>>}

\* The identities of the conversations that exist once the conversations
\* of backup data are imported.
ConversationsWith(data) ==
  ConvIds \cup {data.conversations[n].id[2] : n \in WellFormed(data.conversations, {"id"})}

\* The records of backup data that can be inserted: their identifiers are
\* well-formed and the conversation they refer to exists.
GoodMessages(data) ==
  {n \in WellFormed(data.messages, {"id", "conversation_id"}) :
     data.messages[n].conversation_id[2] \in ConversationsWith(data)}

GoodKnowledge(data) ==
  {n \in WellFormed(data.knowledge, {"id", "source_conversation_id"}) :
     \/ data.knowledge[n].source_conversation_id = NoId
     \/ data.knowledge[n].source_conversation_id[2] \in ConversationsWith(data)}

\* C26: after import_memories, every record that can be inserted is in the
\* store, whatever happened to the records before it, and the count of
\* each category is the number of its records that were processed without
\* failure.
C26_FailureDoesNotAbort ==
  [][arg' /= NoArg /\ arg'.op = "import_memories" /\ <<arg, ret>>' /= <<arg, ret>> =>
       LET data == arg'.data
       IN /\ \A n \in WellFormed(data.conversations, {"id"}) :
               data.conversations[n].id[2] \in {c.id : c \in conversations'}
          /\ \A n \in GoodMessages(data) :
               data.messages[n].id[2] \in {m.id : m \in messages'}
          /\ \A n \in GoodKnowledge(data) :
               data.knowledge[n].id[2] \in {k.id : k \in knowledge'}
          /\ ret'[1].data.conversations =
               Cardinality(WellFormed(data.conversations, {"id"}))
          /\ ret'[1].data.messages = Cardinality(GoodMessages(data))
          /\ ret'[1].data.knowledge = Cardinality(GoodKnowledge(data))]_vars

\* ------------------------------------------------------------------------
\* The tag inferencer and words that contain a keyword
\* ------------------------------------------------------------------------

\* C29: every tag of the result has a keyword that stands in the statement
\* with a word boundary on both of its sides; a keyword that is only part
\* of a longer word gives no tag.
C29_TagsOfWholeWordsOnly ==
  ret /= NoRet =>
    \A n \in 1..Len(TagPatterns) :
      TagPatterns[n].tag \in Range(ret[1])
        => \E alt \in TagPatterns[n].alts : OccursAsWord(alt.chars, LowerText(arg))

\* ------------------------------------------------------------------------
\* The connection pool: get_pool and close_db
\* ------------------------------------------------------------------------
\* pool.ref is the module variable _pool (0 is None), pool.open the pools
\* that were created and not closed, pool.created their number so far.
\* A coroutine runs without interruption from one await to the next, so a
\* call is one step up to `await asyncpg.create_pool(...)` or
\* `await _pool.close()` and one step after it.  tx[p].result is the pool
\* that get_pool returned to request p, tx[p].kid the pool that close_db
\* is closing.

\* Pools created in one run of the model.
MaxPools == 4

nonpool == <<kvars, hist, cvars, svars, fvars, gvars, passed, projects>>

\* get_pool up to its await: `if _pool is None` and, with a pool in place,
\* `return _pool`.
GetPool(p) ==
  /\ tpc[p] = "idle"
  /\ IF pool.ref = 0
     THEN /\ tpc' = [tpc EXCEPT ![p] = "create_pool"]
          /\ tx' = [tx EXCEPT ![p] = [IdleTx EXCEPT !.op = "get_pool"]]
     ELSE /\ tx' = [tx EXCEPT ![p] = [IdleTx EXCEPT !.op = "get_pool",
                                                    !.result = pool.ref]]
          /\ UNCHANGED tpc
  /\ UNCHANGED <<pool, nonpool>>

\* asyncpg.create_pool has returned: `_pool = ...` and `return _pool`.
GetPoolCreated(p) ==
  /\ tpc[p] = "create_pool"
  /\ pool.created < MaxPools
  /\ pool' = [ref |-> pool.created + 1, open |-> pool.open \cup {pool.created + 1},
              created |-> pool.created + 1]
  /\ tx' = [tx EXCEPT ![p].result = pool.created + 1]
  /\ tpc' = [tpc EXCEPT ![p] = "idle"]
  /\ UNCHANGED nonpool

\* close_db up to its await: `if _pool: await _pool.close()`.
CloseDb(p) ==
  /\ tpc[p] = "idle"
  /\ IF pool.ref /= 0
     THEN /\ tpc' = [tpc EXCEPT ![p] = "close"]
          /\ tx' = [tx EXCEPT ![p] = [IdleTx EXCEPT !.op = "close_db", !.kid = pool.ref]]
     ELSE /\ tx' = [tx EXCEPT ![p] = [IdleTx EXCEPT !.op = "close_db"]]
          /\ UNCHANGED tpc
  /\ UNCHANGED <<pool, nonpool>>

\* The pool is closed: `_pool = None`.
CloseDbClosed(p) ==
  /\ tpc[p] = "close"
  /\ pool' = [pool EXCEPT !.ref = 0, !.open = @ \ {tx[p].kid}]
  /\ tpc' = [tpc EXCEPT ![p] = "idle"]
  /\ UNCHANGED <<tx, nonpool>>

NextPool ==
  \E p \in Procs :
    \/ GetPool(p)
    \/ GetPoolCreated(p)
    \/ CloseDb(p)
    \/ CloseDbClosed(p)

SpecPool == Init /\ [][NextPool]_vars

\* The requests to which get_pool has returned a pool.
GotPool == {p \in Procs : tx[p].op = "get_pool" /\ tpc[p] = "idle"}

\* C30: at most one pool is open (created and not closed) at any time, and
\* the get_pool calls that returned a pool that is still open returned the
\* same pool.
C30_OnePool ==
  /\ Cardinality(pool.open) <= 1
  /\ \A p, q \in GotPool :
       (tx[p].result \in pool.open /\ tx[q].result \in pool.open)
         => tx[p].result = tx[q].result

====
